---- MODULE Spec2Model ----
(***************************************************************************)
(* The interactive compliance console of src/src/main.py and the response *)
(* compiler of src/src/response_generator.py, with the parsers and the    *)
(* retrieval filter they call.                                             *)
(*                                                                         *)
(* Text is modelled as a sequence of one-character strings, so that the    *)
(* code's substring tests, regular expressions, case conversions and word  *)
(* splits are computed on characters as Python computes them.              *)
(***************************************************************************)
EXTENDS Integers, Sequences, FiniteSets, TLC

\* ------------------------------------------------------------------ text

UpperLetters ==
    <<"A","B","C","D","E","F","G","H","I","J","K","L","M",
      "N","O","P","Q","R","S","T","U","V","W","X","Y","Z">>

LowerLetters ==
    <<"a","b","c","d","e","f","g","h","i","j","k","l","m",
      "n","o","p","q","r","s","t","u","v","w","x","y","z">>

DigitChars == <<"0","1","2","3","4","5","6","7","8","9">>

UpperSet == {UpperLetters[i] : i \in 1..26}

LowerSet == {LowerLetters[i] : i \in 1..26}

DigitSet == {DigitChars[i] : i \in 1..10}

IsUpper(c) == c \in UpperSet

IsLower(c) == c \in LowerSet

IsDigit(c) == c \in DigitSet

IsAlnum(c) == c \in UpperSet \/ c \in LowerSet \/ c \in DigitSet

\* \w of the re module on ASCII text
IsWord(c) == IsAlnum(c) \/ c = "_"

\* \s of the re module (the model's text holds no other white space than " ")
IsSpace(c) == c = " "

LowerChar(c) ==
    IF c \in UpperSet THEN LowerLetters[CHOOSE i \in 1..26 : UpperLetters[i] = c] ELSE c

UpperChar(c) ==
    IF c \in LowerSet THEN UpperLetters[CHOOSE i \in 1..26 : LowerLetters[i] = c] ELSE c

\* str.lower()
lower(s) == [i \in 1..Len(s) |-> LowerChar(s[i])]

\* str.upper()
upper(s) == [i \in 1..Len(s) |-> UpperChar(s[i])]

\* s[i:j] in 1-based inclusive positions: empty when j < i, cut at the end of s
Slice(s, i, j) ==
    LET e == IF j > Len(s) THEN Len(s) ELSE j
    IN  IF e < i THEN <<>> ELSE SubSeq(s, i, e)

\* s.startswith(p, i - 1)
StartsAt(s, i, p) ==
    /\ i >= 1
    /\ i + Len(p) - 1 <= Len(s)
    /\ \A k \in 1..Len(p) : s[i + k - 1] = p[k]

\* p in s
In(p, s) == \E i \in 1..(Len(s) - Len(p) + 1) : StartsAt(s, i, p)

\* s.find(p) in 1-based positions, 0 when p is not in s
Find(p, s) ==
    IF In(p, s)
    THEN CHOOSE i \in 1..(Len(s) - Len(p) + 1) :
             /\ StartsAt(s, i, p)
             /\ \A j \in 1..(i - 1) : ~StartsAt(s, j, p)
    ELSE 0

\* the last position of the longest run of characters satisfying P that starts
\* at i (i - 1 when the run is empty): a greedy X* of a regular expression
RunEnd(s, i, P(_)) ==
    IF i > Len(s) THEN i - 1
    ELSE CHOOSE j \in (i - 1)..Len(s) :
             /\ \A k \in i..j : P(s[k])
             /\ j = Len(s) \/ ~P(s[j + 1])

\* str.strip()
strip(s) ==
    IF \A k \in 1..Len(s) : IsSpace(s[k]) THEN <<>>
    ELSE LET a == CHOOSE i \in 1..Len(s) :
                      ~IsSpace(s[i]) /\ \A k \in 1..(i - 1) : IsSpace(s[k])
             b == CHOOSE j \in 1..Len(s) :
                      ~IsSpace(s[j]) /\ \A k \in (j + 1)..Len(s) : IsSpace(s[k])
         IN  SubSeq(s, a, b)

\* str.split(): the words of s, split at runs of white space
RECURSIVE SplitFrom(_, _)
SplitFrom(s, i) ==
    IF i > Len(s) THEN <<>>
    ELSE IF IsSpace(s[i]) THEN SplitFrom(s, i + 1)
    ELSE LET NotSpace(c) == ~IsSpace(c)
             e == RunEnd(s, i, NotSpace)
         IN  <<SubSeq(s, i, e)>> \o SplitFrom(s, e + 1)

split(s) == SplitFrom(s, 1)

\* " ".join(words)
RECURSIVE join(_)
join(words) ==
    IF words = <<>> THEN <<>>
    ELSE IF Len(words) = 1 THEN words[1]
    ELSE words[1] \o <<" ">> \o join(Tail(words))

\* s.replace(' ', '')
RECURSIVE RemoveSpaces(_)
RemoveSpaces(s) ==
    IF s = <<>> THEN <<>>
    ELSE IF IsSpace(s[1]) THEN RemoveSpaces(Tail(s))
    ELSE <<s[1]>> \o RemoveSpaces(Tail(s))

\* int(s) of a string of decimal digits
RECURSIVE StrToInt(_)
StrToInt(s) ==
    IF s = <<>> THEN 0
    ELSE 10 * StrToInt(SubSeq(s, 1, Len(s) - 1))
         + (CHOOSE d \in 0..9 : DigitChars[d + 1] = s[Len(s)])

\* str(n) of a natural number
RECURSIVE IntToStr(_)
IntToStr(n) ==
    IF n < 10 THEN <<DigitChars[n + 1]>>
    ELSE IntToStr(n \div 10) \o <<DigitChars[(n % 10) + 1]>>

\* str.isdigit()
isdigit(s) == s # <<>> /\ \A k \in 1..Len(s) : IsDigit(s[k])

\* sorted(set(names)): the strings of a set in Python's order of str (by code
\* point, a prefix before its extensions)
CodePoint(c) ==
    IF c = " " THEN 32
    ELSE IF c = "(" THEN 40
    ELSE IF c = ")" THEN 41
    ELSE IF c = "-" THEN 45
    ELSE IF c \in DigitSet THEN 48 + (CHOOSE d \in 0..9 : DigitChars[d + 1] = c)
    ELSE IF c \in UpperSet THEN 64 + (CHOOSE i \in 1..26 : UpperLetters[i] = c)
    ELSE IF c = "_" THEN 95
    ELSE IF c \in LowerSet THEN 96 + (CHOOSE i \in 1..26 : LowerLetters[i] = c)
    ELSE 63

RECURSIVE StrLess(_, _)
StrLess(a, b) ==
    IF b = <<>> THEN FALSE
    ELSE IF a = <<>> THEN TRUE
    ELSE IF a[1] = b[1] THEN StrLess(Tail(a), Tail(b))
    ELSE CodePoint(a[1]) < CodePoint(b[1])

RECURSIVE sorted(_)
sorted(S) ==
    IF S = {} THEN <<>>
    ELSE LET m == CHOOSE x \in S : \A y \in S \ {x} : StrLess(x, y)
         IN  <<m>> \o sorted(S \ {m})

\* the elements of a sequence
Range(seq) == {seq[i] : i \in 1..Len(seq)}

\* [x for x in seq if P(x)]
RECURSIVE FilterSeq(_, _)
FilterSeq(seq, S) ==
    IF seq = <<>> THEN <<>>
    ELSE (IF seq[1] \in S THEN <<seq[1]>> ELSE <<>>) \o FilterSeq(Tail(seq), S)


\* --------------------------------------------------------------- parsers

\* a normalization that strips one leading zero only
normalize_one_zero(control_id) ==
    IF /\ Len(control_id) >= 5
       /\ IsUpper(control_id[1]) /\ IsUpper(control_id[2]) /\ control_id[3] = "-"
       /\ control_id[4] = "0" /\ IsDigit(control_id[5])
    THEN SubSeq(control_id, 1, 3) \o SubSeq(control_id, 5, Len(control_id))
    ELSE control_id

\* normalize_control_id: ^([A-Z]{2})-0*([0-9]+)(?:\(([a-z0-9]+)\))?$ rewritten as
\* family-number(enhancement), the number without its leading zeros (0* is
\* greedy but leaves [0-9]+ one digit); any other string is returned unchanged
IsEnhChar(c) == c \in LowerSet \/ c \in DigitSet

IsZero(c) == c = "0"

normalize_control_id(control_id) ==
    LET s == control_id
        \* $ matches at the end and before a newline that ends the string
        n == IF s # <<>> /\ s[Len(s)] = "\n" THEN Len(s) - 1 ELSE Len(s)
        Enhanced(d) == /\ d + 3 <= n
                       /\ s[d + 1] = "("
                       /\ s[n] = ")"
                       /\ \A k \in (d + 2)..(n - 1) : IsEnhChar(s[k])
        Number(d, z) == SubSeq(s, IF z >= d THEN d ELSE z + 1, d)
        Rewritten(d) ==
            IF d >= 4 /\ (d = n \/ Enhanced(d))
            THEN SubSeq(s, 1, 3) \o Number(d, RunEnd(s, 4, IsZero)) \o Slice(s, d + 1, n)
            ELSE s
    IN  IF n >= 4 /\ IsUpper(s[1]) /\ IsUpper(s[2]) /\ s[3] = "-"
        THEN Rewritten(RunEnd(s, 4, IsDigit))
        ELSE s

\* the head \w{2}-\d of a control id, at position f
IdHead(s, f) ==
    /\ f >= 1
    /\ f + 3 <= Len(s)
    /\ IsWord(s[f]) /\ IsWord(s[f + 1]) /\ s[f + 2] = "-"
    /\ IsDigit(s[f + 3])

\* (?:\(X+\))? after position h: the position of ")" when "(", a run of X and
\* ")" follow h, else h
Paren(s, h, X(_)) ==
    LET Closed(e) == IF e >= h + 2 /\ e + 1 <= Len(s) /\ s[e + 1] = ")"
                     THEN e + 1 ELSE h
    IN  IF h + 1 <= Len(s) /\ s[h + 1] = "(" THEN Closed(RunEnd(s, h + 2, X)) ELSE h

\* re.search(pattern, s): group 1 of the leftmost match, <<>> when there is
\* none. At(s, i) is the pattern: for a match that starts at i, the first and
\* the last position of group 1; <<0, 0>> when none starts at i
Group1(s, At(_, _)) ==
    LET Cut(r) == SubSeq(s, r[1], r[2])
        Leftmost(at, hits) ==
            IF hits = {} THEN <<>>
            ELSE Cut(at[CHOOSE i \in hits : \A j \in hits : i <= j])
        Search(at) == Leftmost(at, {i \in DOMAIN at : at[i][1] # 0})
    IN  Search([i \in 1..Len(s) |-> At(s, i)])

\* (cci-\d+)
CciAt(s, i) ==
    IF StartsAt(s, i, <<"c","c","i","-">>) /\ i + 4 <= Len(s) /\ IsDigit(s[i + 4])
    THEN <<i, RunEnd(s, i + 4, IsDigit)>>
    ELSE <<0, 0>>

\* re.search(r"(cci-\d+)", query_lower)
cci_match(query_lower) == Group1(query_lower, CciAt)

\* (?:list|show)?\s*cci\s*mappings\s*for\s*(\w{2}-\d+(?:\s*[a-z])?(?:\([a-z0-9]+\))?)
\* for a match whose "cci" is at i (the optional words before it do not move
\* group 1)
ReverseAt(s, i) ==
    LET Letter(g, sp) == IF sp + 1 <= Len(s) /\ IsLower(s[sp + 1]) THEN sp + 1 ELSE g
        Digits(g) == Paren(s, Letter(g, RunEnd(s, g + 1, IsSpace)), IsEnhChar)
        Id(f) == IF IdHead(s, f) THEN <<f, Digits(RunEnd(s, f + 3, IsDigit))>>
                 ELSE <<0, 0>>
        For(b) == IF StartsAt(s, b, <<"f","o","r">>)
                  THEN Id(RunEnd(s, b + 3, IsSpace) + 1) ELSE <<0, 0>>
        Mappings(a) == IF StartsAt(s, a, <<"m","a","p","p","i","n","g","s">>)
                       THEN For(RunEnd(s, a + 8, IsSpace) + 1) ELSE <<0, 0>>
    IN  IF StartsAt(s, i, <<"c","c","i">>)
        THEN Mappings(RunEnd(s, i + 3, IsSpace) + 1) ELSE <<0, 0>>

reverse_match(query_lower) == Group1(query_lower, ReverseAt)

\* what is\s+(\w{2}-\d+(?:\(\d+\))?)\s*\?
SummaryAt(s, i) ==
    LET Mark(f, k, q) == IF q <= Len(s) /\ s[q] = "?" THEN <<f, k>> ELSE <<0, 0>>
        End(f, k) == Mark(f, k, RunEnd(s, k + 1, IsSpace) + 1)
        Id(f) == IF f > i + 7 /\ IdHead(s, f)
                 THEN End(f, Paren(s, RunEnd(s, f + 3, IsDigit), IsDigit))
                 ELSE <<0, 0>>
    IN  IF StartsAt(s, i, <<"w","h","a","t"," ","i","s">>)
        THEN Id(RunEnd(s, i + 7, IsSpace) + 1) ELSE <<0, 0>>

\* re.search(r"what is\s+(\w{2}-\d+(?:\(\d+\))?)\s*\?", query_lower)
control_summary_match(query_lower) == Group1(query_lower, SummaryAt)

\* control_pattern = \b([A-Z]{2}-[0-9]{1,2}(?:\s*\([a-zA-Z0-9]+\))?)\b matched at
\* position i: the last position of the match, 0 when there is none. The
\* alternatives are tried in the order of the regular expression: two digits
\* before one, the enhancement before its absence; the closing \b after ")"
\* asks for a word character to follow, after a digit for none to follow
ControlEnd(s, i) ==
    LET Bare(p) == IF p = Len(s) \/ ~IsWord(s[p + 1]) THEN p ELSE 0
        Closed(p, e) == IF /\ e + 1 <= Len(s) /\ s[e + 1] = ")"
                           /\ e + 2 <= Len(s) /\ IsWord(s[e + 2])
                        THEN e + 1 ELSE Bare(p)
        Open(p, o) == IF o <= Len(s) /\ s[o] = "(" /\ o + 1 <= Len(s) /\ IsAlnum(s[o + 1])
                      THEN Closed(p, RunEnd(s, o + 1, IsAlnum)) ELSE Bare(p)
        Try(p) == Open(p, RunEnd(s, p + 1, IsSpace) + 1)
        One(two) == IF two # 0 THEN two ELSE Try(i + 3)
    IN  IF /\ i = 1 \/ ~IsWord(s[i - 1])
           /\ i + 3 <= Len(s)
           /\ IsUpper(s[i]) /\ IsUpper(s[i + 1]) /\ s[i + 2] = "-"
           /\ IsDigit(s[i + 3])
        THEN One(IF i + 4 <= Len(s) /\ IsDigit(s[i + 4]) THEN Try(i + 4) ELSE 0)
        ELSE 0

\* [match.replace(' ', '') for match in control_pattern.findall(query.upper())]
RECURSIVE FindControls(_, _)
FindControls(s, i) ==
    LET Found(e) == IF e = 0 THEN FindControls(s, i + 1)
                    ELSE <<RemoveSpaces(SubSeq(s, i, e))>> \o FindControls(s, e + 1)
    IN  IF i > Len(s) THEN <<>> ELSE Found(ControlEnd(s, i))

extract_control_ids(query) == FindControls(upper(query), 1)

\* with technology index\s*(\d+)
IndexAt(s, i) ==
    LET Number(d) == IF d <= Len(s) /\ IsDigit(s[d])
                     THEN <<d, RunEnd(s, d, IsDigit)>> ELSE <<0, 0>>
    IN  IF StartsAt(s, i, <<"w","i","t","h"," ","t","e","c","h","n","o","l","o","g","y"," ","i","n","d","e","x">>)
        THEN Number(RunEnd(s, i + 21, IsSpace) + 1) ELSE <<0, 0>>

\* re.search(r'with technology index\s*(\d+)', query_lower)
system_match(query_lower) == Group1(query_lower, IndexAt)

\* on\s+([a-zA-Z0-9][a-zA-Z0-9\s\-]*[a-zA-Z0-9])\b: the class run after the
\* first character is greedy and backtracks to the last alphanumeric character
\* that a word boundary follows
IsHintChar(c) == IsAlnum(c) \/ IsSpace(c) \/ c = "-"

HintAt(s, i) ==
    LET Last(f, ends) == IF ends = {} THEN <<0, 0>>
                         ELSE <<f, CHOOSE k \in ends : \A m \in ends : m <= k>>
        Run(f, e) == Last(f, {k \in (f + 1)..e :
                                 IsAlnum(s[k]) /\ (k = Len(s) \/ ~IsWord(s[k + 1]))})
        Word(f) == IF f > i + 2 /\ f <= Len(s) /\ IsAlnum(s[f])
                   THEN Run(f, RunEnd(s, f + 1, IsHintChar)) ELSE <<0, 0>>
    IN  IF StartsAt(s, i, <<"o","n">>)
        THEN Word(RunEnd(s, i + 2, IsSpace) + 1) ELSE <<0, 0>>

\* re.search(r'on\s+([a-zA-Z0-9][a-zA-Z0-9\s\-]*[a-zA-Z0-9])\b', query_lower)
tech_match(query_lower) == Group1(query_lower, HintAt)

\* (\w{2}-\d+(?:\([a-z0-9]+\))?) under re.IGNORECASE
RetrieveAt(s, i) ==
    IF IdHead(s, i) THEN <<i, Paren(s, RunEnd(s, i + 3, IsDigit), IsAlnum)>>
    ELSE <<0, 0>>

\* re.search(r'(\w{2}-\d+(?:\([a-z0-9]+\))?)', query, re.IGNORECASE) of
\* retrieve_documents
control_match(query) == Group1(query, RetrieveAt)

\* ------------------------------------------------------- knowledge base

\* the most documents a search returns: retrieve_documents' top_k (100 in the
\* code, of a corpus of some thousand documents), scaled to the model's corpus
TopK == 1

\* the most STIG benchmark files in the STIG folder
MaxStigs == 2

\* catalog_data: the controls extract_controls_from_json returns
catalog_data ==
    << [control_id |-> <<"A","C","-","1">>, title |-> <<"P","o","l","i","c","y">>,
        description |-> <<"D","e","v","e","l","o","p"," ","a","c","c","e","s","s"," ","p","o","l","i","c","y","."," ","U","p","d","a","t","e"," ","i","t",".">>, parameters |-> <<<<"p","1",":"," ","r","o","l","e","s">>>>,
        related_controls |-> <<>>],
       [control_id |-> <<"A","C","-","1","7">>, title |-> <<"R","e","m","o","t","e"," ","A","c","c","e","s","s">>,
        description |-> <<"A","u","t","h","o","r","i","z","e"," ","r","e","m","o","t","e"," ","a","c","c","e","s","s",".">>, parameters |-> <<>>,
        related_controls |-> <<<<"A","C","-","1">>>>],
       [control_id |-> <<"A","U","-","2">>, title |-> <<"E","v","e","n","t"," ","L","o","g","g","i","n","g">>,
        description |-> <<"I","d","e","n","t","i","f","y"," ","e","v","e","n","t"," ","t","y","p","e","s",".">>, parameters |-> <<>>,
        related_controls |-> <<>>] >>

\* control_details = {ctrl['control_id']: ctrl for ctrl in catalog_data}
control_details ==
    LET Index(data) ==
            [c \in {data[i].control_id : i \in 1..Len(data)} |->
                data[CHOOSE i \in 1..Len(data) :
                         /\ data[i].control_id = c
                         /\ \A j \in (i + 1)..Len(data) : data[j].control_id # c]]
    IN  Index(catalog_data)

\* assessment_procedures: what extract_assessment_procedures returns
assessment_procedures ==
    [c \in {<<"A","C","-","1","7">>} |-> <<<<"E","x","a","m","i","n","e"," ","r","e","m","o","t","e"," ","a","c","c","e","s","s"," ","p","o","l","i","c","y">>, <<"I","n","t","e","r","v","i","e","w"," ","a","d","m","i","n","i","s","t","r","a","t","o","r","s">>>>]

\* a dict that keeps insertion order: a sequence of items, a key once
DictHas(d, key) == \E i \in 1..Len(d) : d[i].key = key

DictGet(d, key) == d[CHOOSE i \in 1..Len(d) : d[i].key = key].val

\* d[key] = val: a new key goes last, a known key keeps its place
DictPut(d, key, val) ==
    IF DictHas(d, key)
    THEN [i \in 1..Len(d) |-> IF d[i].key = key THEN [key |-> key, val |-> val] ELSE d[i]]
    ELSE Append(d, [key |-> key, val |-> val])

DictKeys(d) == [i \in 1..Len(d) |-> d[i].key]

\* cci_to_nist: what load_cci_mapping returns, in the order of the CCI list
cci_to_nist ==
    << [key |-> <<"C","C","I","-","0","0","0","1","3","0">>, val |-> <<"A","U","-","3">>],
       [key |-> <<"C","C","I","-","0","0","0","0","0","1">>, val |-> <<"A","C","-","1">>],
       [key |-> <<"C","C","I","-","0","0","0","0","6","7">>, val |-> <<"A","C","-","1","7">>],
       [key |-> <<"C","C","I","-","0","0","0","1","2","3">>, val |-> <<"A","U","-","2">>] >>

\* ", ".join(parts)
RECURSIVE JoinComma(_)
JoinComma(parts) ==
    IF parts = <<>> THEN <<>>
    ELSE IF Len(parts) = 1 THEN parts[1]
    ELSE parts[1] \o <<","," ">> \o JoinComma(Tail(parts))

\* all_documents of main: a Catalog document and an Assessment document of
\* every control (high_baseline_data is empty: no baseline was fetched)
CatalogDoc(ctrl) ==
    <<"N","I","S","T"," ","8","0","0","-","5","3"," ","R","e","v"," ","5"," ">> \o <<"C","a","t","a","l","o","g",","," ">> \o ctrl.control_id \o <<":"," ">>
        \o ctrl.title \o <<" ">> \o ctrl.description

AssessmentDoc(ctrl) ==
    <<"N","I","S","T"," ","8","0","0","-","5","3"," ","R","e","v"," ","5"," ">> \o <<"A","s","s","e","s","s","m","e","n","t",","," ">> \o ctrl.control_id \o <<":"," ">>
        \o <<"T","o"," ","a","s","s","e","s","s"," ","t","h","i","s"," ","c","o","n","t","r","o","l",","," ","v","e","r","i","f","y"," ">> \o lower(ctrl.description) \o <<" ","C","h","e","c","k"," ","p","a","r","a","m","e","t","e","r","s",":"," ">>
        \o (IF ctrl.parameters # <<>> THEN JoinComma(ctrl.parameters)
            ELSE <<"n","o","n","e"," ","s","p","e","c","i","f","i","e","d">>)
        \o <<".">>

all_documents ==
    [i \in 1..Len(catalog_data) |-> CatalogDoc(catalog_data[i])]
        \o [i \in 1..Len(catalog_data) |-> AssessmentDoc(catalog_data[i])]

\* the *.xml files a STIG folder can hold: a benchmark's title, version and
\* rules, each rule with the CCI identifiers of its ident elements
StigFile(file, title, version, rule_id, ccis) ==
    [file |-> file, title |-> title, version |-> version,
     rules |-> << [rule_id |-> rule_id, title |-> <<"L","i","m","i","t"," ","a","c","c","e","s","s">>,
                   fix |-> <<"C","o","n","f","i","g","u","r","e"," ","t","h","e"," ","p","o","l","i","c","y",".">>, severity |-> <<"h","i","g","h">>, ccis |-> ccis] >>]

StigFiles ==
    { StigFile(<<"w","1","0",".","x","m","l">>, <<"W","i","n","d","o","w","s"," ","1","0"," ","G","u","i","d","e">>, <<"3">>, <<"W","N","1","0","-","1">>, <<<<"C","C","I","-","0","0","0","0","0","1">>>>),
      StigFile(<<"w","1","0","a","u",".","x","m","l">>, <<"W","i","n","d","o","w","s"," ","1","0"," ","S","T","I","G">>, <<"1">>, <<"W","N","1","0","-","A","U","-","0","0","0","0","1","0">>, <<<<"C","C","I","-","0","0","0","1","2","3">>>>),
      StigFile(<<"w","d",".","x","m","l">>, <<"W","i","n","d","o","w","s"," ","D","e","f","e","n","d","e","r"," ","G","u","i","d","e">>, <<"2">>, <<"W","D","E","F","-","1">>, <<<<"C","C","I","-","0","0","0","0","0","1">>>>),
      StigFile(<<"w","s",".","x","m","l">>, <<"W","i","n","d","o","w","s"," ","S","e","r","v","e","r"," ","G","u","i","d","e">>, <<"1">>, <<"W","S","R","V","-","1">>, <<<<"C","C","I","-","0","0","0","0","6","7">>>>),
      StigFile(<<"r","h","9",".","x","m","l">>, <<"R","e","d"," ","H","a","t"," ","E","n","t","e","r","p","r","i","s","e"," ","L","i","n","u","x"," ","9"," ","S","T","I","G">>, <<"1">>, <<"R","H","E","L","-","1">>,
               <<<<"C","C","I","-","0","0","0","0","0","1">>, <<"C","C","I","-","0","0","0","0","6","7">>>>),
      StigFile(<<"m","u","l","t","i",".","x","m","l">>, <<"W","i","n","d","o","w","s"," ","M","u","l","t","i","p","l","e"," ","S","T","I","G"," ","t","e","c","h","n","o","l","o","g","i","e","s"," ","a","v","a","i","l","a","b","l","e">>, <<"1">>, <<"M","U","L","T","-","1">>,
               <<<<"C","C","I","-","0","0","0","0","0","1">>>>) }

\* the folders: glob's list of at most MaxStigs distinct files, in any order
StigFolders ==
    UNION { { f \in [1..n -> StigFiles] : \A i, j \in 1..n : i # j => f[i] # f[j] }
            : n \in 0..MaxStigs }

\* parse_stig_xccdf: the technology of a benchmark, from its title
parse_technology(title) ==
    LET title_lower == lower(title)
        sp == Find(<<" ">>, title)
    IN  IF In(<<"w","i","n","d","o","w","s"," ","1","0">>, title_lower) THEN <<"W","i","n","d","o","w","s"," ","1","0">>
        ELSE IF In(<<"r","e","d"," ","h","a","t"," ","e","n","t","e","r","p","r","i","s","e"," ","l","i","n","u","x"," ","9">>, title_lower) THEN <<"R","e","d"," ","H","a","t"," ","9">>
        ELSE IF sp = 0 THEN title ELSE SubSeq(title, 1, sp - 1)

\* parse_stig_xccdf: the recommendations of one control, the rules one of whose
\* CCIs cci_to_nist maps to it, in file order, a rule_id once
MapsTo(rule, control_id) ==
    \E k \in 1..Len(rule.ccis) :
        /\ DictHas(cci_to_nist, rule.ccis[k])
        /\ DictGet(cci_to_nist, rule.ccis[k]) = control_id

RECURSIVE RulesFor(_, _, _)
RulesFor(rules, control_id, acc) ==
    IF rules = <<>> THEN acc
    ELSE LET r == rules[1]
             rec == [rule_id |-> r.rule_id, title |-> r.title,
                     fix |-> r.fix, severity |-> r.severity]
             seen == \E k \in 1..Len(acc) : acc[k].rule_id = r.rule_id
         IN  RulesFor(Tail(rules), control_id,
                      IF MapsTo(r, control_id) /\ ~seen THEN Append(acc, rec) ELSE acc)

parse_stig_xccdf(f) ==
    LET mapped == { cci_to_nist[i].val : i \in 1..Len(cci_to_nist) }
        keys == { c \in mapped : \E k \in 1..Len(f.rules) : MapsTo(f.rules[k], c) }
    IN  [recommendations |-> [c \in keys |-> RulesFor(f.rules, c, <<>>)],
         technology |-> parse_technology(f.title),
         title |-> f.title,
         version |-> f.version]

\* load_stig_data: every file parsed in glob order, its recommendations stored
\* under its technology (a later file of the same technology replaces them),
\* its description appended to available_stigs
RECURSIVE LoadFrom(_, _, _)
LoadFrom(files, recs, stigs) ==
    IF files = <<>>
    THEN [all_stig_recommendations |-> recs, available_stigs |-> stigs]
    ELSE LET p == parse_stig_xccdf(files[1])
         IN  LoadFrom(Tail(files),
                      (p.technology :> p.recommendations) @@ recs,
                      Append(stigs, [file |-> files[1].file, title |-> p.title,
                                     technology |-> p.technology,
                                     version |-> p.version]))

load_stig_data(stig_files) == LoadFrom(stig_files, <<>>, <<>>)

\* retrieve_documents: the documents at the positions the index search
\* reported (0-based; -1, an empty slot, reads doc_list[-1], the last
\* document), filtered to those that contain the normalized first control id of
\* the query, or the first five when none does
retrieve_documents(query, indices, doc_list) ==
    LET retrieved_docs ==
            [k \in 1..Len(indices) |->
                IF indices[k] < 0 THEN doc_list[Len(doc_list) + 1 + indices[k]]
                ELSE doc_list[indices[k] + 1]]
        m == control_match(query)
        control_id == normalize_control_id(upper(m))
        hits == FilterSeq(retrieved_docs,
                          {d \in Range(retrieved_docs) : In(control_id, d)})
    IN  IF m # <<>>
        THEN (IF hits # <<>> THEN hits ELSE Slice(retrieved_docs, 1, 5))
        ELSE retrieved_docs

\* index.search(query_embedding, top_k): top_k positions, the nearest documents
\* first, each once, in an order the embedding decides; -1 in the slots left
\* when the corpus holds fewer than top_k documents
SearchResults(n) ==
    { r \in [1..TopK -> (-1)..(n - 1)] :
        /\ \A i \in 1..TopK : (r[i] = -1) <=> (i > n)
        /\ \A i, j \in 1..TopK : (i # j /\ r[i] # -1) => r[i] # r[j] }

\* ---------------------------------------------------- response compiler

\* the lines generate_response and main print, as their format strings: {n} is
\* a number, {0}, {1}, ... the texts and {*} the texts joined by newlines (a
\* backquote or a typographic apostrophe of the code is written ')
T == [ cci_lookup |-> "CCI Lookup:",
       cci_maps |-> "- {0} maps to NIST {1}",
       title |-> "- **Title:** {0}",
       nl_title |-> "\n- **Title:** {0}",
       description |-> "- **Description:** {0}",
       cci_mappings_for |-> "CCI Mappings for {0}:",
       cci_arrow |-> "- {0} -> {1}",
       no_cci_mappings |-> "- No CCI mappings found for {0}.",
       cci_summary |-> "CCI-to-NIST Mappings Summary:",
       total_mappings |-> "- Total mappings: {n}",
       sample_mappings |-> "- Sample mappings (first 5):",
       sample |-> "  - {0} -> {1}",
       and_more |-> "- ...and {n} more.",
       subparts_note |-> "Note: Subparts (e.g., 'A', '1 (A)') refer to specific NIST 800-53 requirements or enhancements.",
       withdrawn_into |-> "{0} has been withdrawn and incorporated into {1}.",
       withdrawn |-> "{0} has been withdrawn.",
       summary |-> "{0} is the control for \"{1}\" in the NIST 800-53 Revision 5 catalog. This control requires organizations to {2}. Essentially, this control helps organizations {3}.",
       entail |-> "\n#### What Does {0} Entail?\n{1}",
       parameters |-> "\n**Parameters:** {0}",
       related |-> "\n**Related Controls:** {0}",
       control_not_found |-> "Control {0} not found in the NIST 800-53 Revision 5 catalog.",
       no_stigs_found |-> "No STIGs found{0}. Please check the 'stig_folder' in 'config.ini'.",
       available_stigs |-> "### Available STIGs",
       stig_count |-> "Here's a list of {n} STIG(s) loaded in the system:\n",
       tech_version |-> "{n}. {0} (Version {1})",
       stig_title |-> "   - Title: {0}",
       stig_file |-> "   - File: {0}",
       blank |-> "",
       tip |-> "Tip: Use 'assess <control>' or 'implement <control>' to see STIG recommendations.",
       no_controls |-> "**No NIST controls detected.** Try including a control ID like 'AU-3'.",
       answering |-> "**Answering:** '{0}'",
       found |-> "Here's what I found based on NIST 800-53 and available STIGs:\n",
       relevant |-> "Relevant info: {*}",
       select |-> "### Select a Technology",
       multiple |-> "Multiple technologies support {0}. Please choose one:\n",
       next_step |-> "\nNext Step: Enter a number (1-{n}, or 0 for all) to proceed.",
       clarification_needed |-> "CLARIFICATION_NEEDED",
       invalid_selection |-> "Invalid technology selection.",
       assessing |-> "### Assessing {0}",
       implementing |-> "### Implementing {0}",
       based_on |-> "Based on NIST 800-53 Rev 5 and available STIGs:\n",
       control |-> "1. {0}",
       status_not_found |-> "   - Status: Not found in NIST 800-53 Rev 5 catalog.",
       control_title |-> "1. {0} - {1}",
       purpose |-> "   - Purpose: {0}.",
       steps_to_assess |-> "   Steps to Assess:",
       step |-> "     {n}. {0}",
       confirm_parameters |-> "     {n}. Confirm parameters: {0}",
       stig_checks |-> "   STIG Checks for {0}:",
       rule |-> "     {n}. {0} (Rule {1})",
       verify |-> "        - Verify: {0}",
       severity |-> "        - Severity: {0}",
       no_stig_checks |-> "     1. No specific STIG checks available.",
       checklist_saved |-> "   - Checklist Saved: See 'assessment_checklists/checklist_{0}_{n}.csv'",
       how_to_implement |-> "   How to Implement:",
       follow |-> "     1. Follow the control description to enforce this requirement.",
       stig_guidance |-> "   STIG Guidance for {0}:",
       apply |-> "        - Apply: {0}",
       no_stig_guidance |-> "     1. No specific STIG guidance available.",
       no_information |-> "No specific information found for this query.",
       recorded_note |-> "Note: This query has been recorded for future improvement. Type 'show unknown' to see all recorded queries.",
       response_to |-> "\n### Response to '{0}'",
       enter_question |-> "Enter your compliance question (e.g., 'How do I assess AU-3?', 'exit'):",
       examples |-> "Examples:",
       example_implement |-> "- How should IA-5 be implemented for Windows?",
       example_assess |-> "- How do I assess AU-3?",
       example_cci |-> "- What is CCI-000130? (CCI lookup)",
       example_reverse |-> "- List CCI mappings for AU-3 (Reverse CCI lookup)",
       example_summary |-> "- Show CCI mappings (CCI summary)",
       example_stigs |-> "- List STIGs",
       example_unknown |-> "- Show unknown (displays previously unhandled queries)",
       unknown_header |-> "Previously unhandled queries:",
       unknown_item |-> "{n}. {0}",
       no_unknown |-> "No unknown queries recorded yet.",
       please_enter |-> "Please enter a query or type 'help' for examples.",
       checklist_prompt |-> "Generate an assessment checklist for this query? (y/n): ",
       please_yn |-> "Please enter 'y' for yes or 'n' for no.",
       processing |-> "\nProcessing...",
       traceback |-> "Traceback (most recent call last):",
       raised_in |-> "  File \"{0}\", line {n}, in {1}" ]

\* one printed line: a format of T, its number and its texts
Line(tag, n, texts) == [tag |-> tag, n |-> n, texts |-> texts]

Blank == Line("", 0, <<>>)

\* s.split(sep)[0]: s up to the first sep, all of s when sep is not in s
Before(s, sep) ==
    IF In(sep, s) THEN SubSeq(s, 1, Find(sep, s) - 1) ELSE s

\* s.split(sep, 1)[1]: s after the first sep (sep is in s)
After(s, sep) == Slice(s, Find(sep, s) + Len(sep), Len(s))

\* s.split(sep)[1]: s between the first sep and the next (sep is in s)
Second(s, sep) == Before(After(s, sep), sep)

\* s.capitalize()
capitalize(s) ==
    IF s = <<>> THEN s ELSE <<UpperChar(s[1])>> \o lower(Tail(s))

\* family_purposes, its entries for the families of the catalog's controls
family_purposes ==
    (<<"A","C">> :> <<"m","a","n","a","g","e"," ","a","c","c","e","s","s"," ","t","o"," ","i","n","f","o","r","m","a","t","i","o","n"," ","s","y","s","t","e","m","s"," ","a","n","d"," ","r","e","s","o","u","r","c","e","s">>) @@ (<<"A","U">> :> <<"m","o","n","i","t","o","r"," ","a","n","d"," ","r","e","v","i","e","w"," ","s","y","s","t","e","m"," ","a","c","t","i","v","i","t","i","e","s"," ","f","o","r"," ","s","e","c","u","r","i","t","y"," ","a","n","d"," ","c","o","m","p","l","i","a","n","c","e">>)

\* re.search(r"Incorporated into (\w{2}-\d+(?:\(\d+\))?)", description,
\* re.IGNORECASE): group 1 of the leftmost match, <<>> when none
IncorporatedAt(s, i) ==
    LET Id(f) == IF IdHead(s, f) THEN <<f, Paren(s, RunEnd(s, f + 3, IsDigit), IsDigit)>>
                 ELSE <<0, 0>>
    IN  IF StartsAt(lower(s), i, <<"i","n","c","o","r","p","o","r","a","t","e","d"," ","i","n","t","o"," ">>) THEN Id(i + 18) ELSE <<0, 0>>

incorporated_match(description) == Group1(description, IncorporatedAt)

\* the title and the description of a control of the catalog, no line for a
\* control the catalog does not have
TitleLines(control_id, title_format) ==
    LET Of(ctrl) == << Line(title_format, 0, <<ctrl.title>>),
                       Line("- **Description:** {0}", 0, <<ctrl.description>>) >>
        In_(details) == IF control_id \in DOMAIN details THEN Of(details[control_id])
                        ELSE <<>>
    IN  In_(control_details)

\* generate_response, a CCI in the query: the control the CCI maps to, and the
\* control's title and description when the catalog has it
cci_lookup(m) ==
    LET Answer(cci_id, normalized_control) ==
            << Line("CCI Lookup:", 0, <<>>),
               Line("- {0} maps to NIST {1}", 0, <<cci_id, normalized_control>>) >>
            \o TitleLines(normalized_control, "- **Title:** {0}")
        Mapped(cci_id, mapping) ==
            Answer(cci_id,
                   normalize_control_id(IF DictHas(mapping, cci_id)
                                        THEN DictGet(mapping, cci_id)
                                        ELSE <<"N","o","t"," ","m","a","p","p","e","d"," ","t","o"," ","N","I","S","T"," ","8","0","0","-","5","3"," ","R","e","v"," ","5">>))
    IN  Mapped(upper(m), cci_to_nist)

\* generate_response, "cci mappings for <control>": the CCIs mapped to the
\* control, in the order of cci_to_nist
reverse_lookup(m) ==
    LET Answer(control_id, matching_ccis) ==
            << Line("CCI Mappings for {0}:", 0, <<control_id>>) >>
            \o (IF matching_ccis # <<>>
                THEN [i \in 1..Len(matching_ccis) |->
                         Line("- {0} -> {1}", 0, <<matching_ccis[i], control_id>>)]
                     \o TitleLines(control_id, "\n- **Title:** {0}")
                ELSE << Line("- No CCI mappings found for {0}.", 0, <<control_id>>) >>)
        Matching(control_id, mapping) ==
            Answer(control_id,
                   DictKeys(FilterSeq(mapping,
                                      {it \in Range(mapping) :
                                          normalize_control_id(it.val) = control_id})))
    IN  Matching(normalize_control_id(upper(m)), cci_to_nist)

\* generate_response, "show cci mappings": the size of cci_to_nist and its
\* first five items
cci_summary ==
    LET Sample(first5) == [i \in 1..Len(first5) |->
                              Line("  - {0} -> {1}", 0, <<first5[i].key, first5[i].val>>)]
        Of(mapping) ==
            << Line("CCI-to-NIST Mappings Summary:", 0, <<>>),
               Line("- Total mappings: {n}", Len(mapping), <<>>),
               Line("- Sample mappings (first 5):", 0, <<>>) >>
            \o Sample(Slice(mapping, 1, 5))
            \o (IF Len(mapping) > 5
                THEN << Line("- ...and {n} more.", Len(mapping) - 5, <<>>) >> ELSE <<>>)
            \o << Line("Note: Subparts (e.g., 'A', '1 (A)') refer to specific NIST 800-53 requirements or enhancements.", 0, <<>>) >>
    IN  Of(cci_to_nist)

\* generate_response, "what is <control>?": the control's summary
control_summary(m) ==
    LET Withdrawn(control_id, match) ==
            IF match # <<>>
            THEN << Line("{0} has been withdrawn and incorporated into {1}.", 0, <<control_id, upper(match)>>) >>
            ELSE << Line("{0} has been withdrawn.", 0, <<control_id>>) >>
        Purpose(family, purposes) ==
            IF family \in DOMAIN purposes THEN purposes[family]
            ELSE <<"a","d","d","r","e","s","s"," ","s","p","e","c","i","f","i","c"," ","s","e","c","u","r","i","t","y"," ","a","n","d"," ","p","r","i","v","a","c","y"," ","r","e","q","u","i","r","e","m","e","n","t","s">>
        Of(control_id, ctrl) ==
            IF In(<<"[","w","i","t","h","d","r","a","w","n",":">>, lower(ctrl.description))
            THEN Withdrawn(control_id, incorporated_match(ctrl.description))
            ELSE << Line("{0} is the control for \"{1}\" in the NIST 800-53 Revision 5 catalog. This control requires organizations to {2}. Essentially, this control helps organizations {3}.", 0,
                         <<control_id, ctrl.title,
                           lower(Before(ctrl.description, <<".">>)),
                           Purpose(Before(control_id, <<"-">>), family_purposes)>>),
                    Line("\n#### What Does {0} Entail?\n{1}", 0, <<control_id, ctrl.description>>) >>
                 \o (IF ctrl.parameters # <<>>
                     THEN << Line("\n**Parameters:** {0}", 0, <<JoinComma(ctrl.parameters)>>) >>
                     ELSE <<>>)
                 \o (IF ctrl.related_controls # <<>>
                     THEN << Line("\n**Related Controls:** {0}", 0, <<JoinComma(ctrl.related_controls)>>) >>
                     ELSE <<>>)
        In_(control_id, details) ==
            IF control_id \in DOMAIN details THEN Of(control_id, details[control_id])
            ELSE << Line("Control {0} not found in the NIST 800-53 Revision 5 catalog.", 0, <<control_id>>) >>
    IN  In_(upper(m), control_details)

\* generate_response, "list stigs": the loaded STIGs whose technology or title
\* contains the keyword after "for", all of them without a keyword
list_stigs(query_lower, stigs) ==
    LET Entry(stig, i) ==
            << Line("{n}. {0} (Version {1})", i, <<stig.technology, stig.version>>),
               Line("   - Title: {0}", 0, <<stig.title>>),
               Line("   - File: {0}", 0, <<stig.file>>),
               Blank >>
        Listed(keyword, filtered_stigs) ==
            LET Entries[i \in 0..Len(filtered_stigs)] ==
                    IF i = 0 THEN <<>> ELSE Entries[i - 1] \o Entry(filtered_stigs[i], i)
            IN  IF filtered_stigs = <<>>
                THEN << Line("No STIGs found{0}. Please check the 'stig_folder' in 'config.ini'.", 0,
                             << IF keyword # <<>> THEN <<" ","f","o","r"," ">> \o keyword ELSE <<>> >>) >>
                ELSE << Line("### Available STIGs", 0, <<>>),
                        Line("Here's a list of {n} STIG(s) loaded in the system:\n", Len(filtered_stigs), <<>>) >>
                     \o Entries[Len(filtered_stigs)]
                     \o << Line("Tip: Use 'assess <control>' or 'implement <control>' to see STIG recommendations.", 0, <<>>) >>
        Filtered(keyword) ==
            Listed(keyword,
                   FilterSeq(stigs, {g \in Range(stigs) :
                                        \/ keyword = <<>>
                                        \/ In(lower(keyword), lower(g.technology))
                                        \/ In(lower(keyword), lower(g.title))}))
    IN  Filtered(IF In(<<"f","o","r">>, query_lower)
                 THEN strip(Second(query_lower, <<"f","o","r">>)) ELSE <<>>)

\* generate_response, a control but neither "assess", "audit" nor "implement":
\* the first five retrieved documents
generic_answer(query, retrieved_docs) ==
    << Line("**Answering:** '{0}'", 0, <<query>>),
       Line("Here's what I found based on NIST 800-53 and available STIGs:\n", 0, <<>>),
       Line("Relevant info: {*}", 0, Slice(retrieved_docs, 1, 5)) >>

\* get_technology_name: the title's words without "STIG", "V" or a leading "R"
\* when the title names a STIG in more than two words, else the technology
get_technology_name(stig) ==
    LET title == stig.title
        words == split(title)
        Keep(word) == /\ ~In(<<"S","T","I","G">>, word)
                      /\ ~In(<<"V">>, word)
                      /\ ~In(<<"R">>, Slice(word, 1, 2))
    IN  IF In(<<"S","T","I","G">>, title) /\ title # <<"U","n","t","i","t","l","e","d"," ","S","T","I","G">> /\ Len(words) > 2
        THEN join(FilterSeq(words, {w \in Range(words) : Keep(w)}))
        ELSE stig.technology

\* tech_to_stig = {get_technology_name(stig).lower(): stig for stig in
\* available_stigs}: a name keeps the place of its first STIG and the value of
\* its last
RECURSIVE TechToStigFrom(_, _)
TechToStigFrom(stigs, d) ==
    IF stigs = <<>> THEN d
    ELSE TechToStigFrom(Tail(stigs),
                        DictPut(d, lower(get_technology_name(stigs[1])), stigs[1]))

tech_to_stig_of(stigs) == TechToStigFrom(stigs, <<>>)

\* all_stig_recommendations.get(tech, {}).get(control_id, [])
RecsOf(recs, tech, control_id) ==
    IF tech \in DOMAIN recs
    THEN (IF control_id \in DOMAIN recs[tech] THEN recs[tech][control_id] ELSE <<>>)
    ELSE <<>>

\* applicable_techs: the names of tech_to_stig, in its order, whose STIG's
\* technology has recommendations stored for one of the controls
applicable_techs_of(tech_to_stig, control_ids, recs) ==
    LET Applies(item) ==
            \E k \in 1..Len(control_ids) :
                /\ item.val.technology \in DOMAIN recs
                /\ control_ids[k] \in DOMAIN recs[item.val.technology]
    IN  DictKeys(FilterSeq(tech_to_stig, {it \in Range(tech_to_stig) : Applies(it)}))

\* candidates that a hint can only narrow: a hint that matches technologies
\* none of which is applicable is dropped. C6 tells the code from this
unique_techs_narrowed(tech_hint, all_techs, applicable_techs) ==
    LET Hinted(matching_techs) ==
            IF tech_hint # <<>>
               /\ Range(matching_techs) \cap Range(applicable_techs) # {}
            THEN sorted(Range(matching_techs) \cap Range(applicable_techs))
            ELSE sorted(Range(applicable_techs))
    IN  Hinted(FilterSeq(all_techs,
                         {t \in Range(all_techs) : In(lower(tech_hint), lower(t))}))

\* unique_techs: the candidates of the selection, lines 233-246
unique_techs_of(tech_hint, all_techs, applicable_techs) ==
    LET Fallback(unique_techs) ==
            IF unique_techs = <<>> /\ applicable_techs # <<>> THEN applicable_techs
            ELSE unique_techs
        Narrowed(matching_techs, both) == IF both # <<>> THEN both ELSE matching_techs
        Hinted(matching_techs) ==
            IF tech_hint # <<>> /\ matching_techs # <<>>
            THEN Narrowed(matching_techs,
                          sorted(Range(matching_techs) \cap Range(applicable_techs)))
            ELSE sorted(Range(applicable_techs))
    IN  Fallback(Hinted(FilterSeq(all_techs,
                                  {t \in Range(all_techs) :
                                      In(lower(tech_hint), lower(t))})))

\* a request made from three candidates on only: C3 tells the code from this
clarification_from_three(selected_idx, unique_techs) ==
    selected_idx = <<>> /\ Len(unique_techs) > 2

\* selected_idx is None and len(unique_techs) > 1
clarification_needed(selected_idx, unique_techs) ==
    selected_idx = <<>> /\ Len(unique_techs) > 1

\* the disambiguation request: the candidates, numbered in the order of
\* unique_techs, each with its STIG's technology, version and title
clarification(control_ids, unique_techs, tech_to_stig) ==
    LET Entry(i) == LET stig == DictGet(tech_to_stig, unique_techs[i])
                    IN  << Line("{n}. {0} (Version {1})", i, <<stig.technology, stig.version>>),
                           Line("   - Title: {0}", 0, <<stig.title>>) >>
        Entries[i \in 0..Len(unique_techs)] ==
            IF i = 0 THEN <<>> ELSE Entries[i - 1] \o Entry(i)
    IN  << Line("### Select a Technology", 0, <<>>),
           Line("Multiple technologies support {0}. Please choose one:\n", 0, <<JoinComma(control_ids)>>) >>
        \o Entries[Len(unique_techs)]
        \o << Line("\nNext Step: Enter a number (1-{n}, or 0 for all) to proceed.", Len(unique_techs), <<>>),
              Line("CLARIFICATION_NEEDED", 0, <<>>) >>

\* a selection for which an empty candidate list is an invalid selection: C8
\* tells the code from this
selected_techs_nonempty(selected_idx, unique_techs, tech_to_stig) ==
    LET Tech(i) == DictGet(tech_to_stig, unique_techs[i]).technology
    IN  IF selected_idx = <<0>> /\ unique_techs # <<>>
        THEN [valid |-> TRUE, techs |-> [i \in 1..Len(unique_techs) |-> Tech(i)]]
        ELSE IF selected_idx # <<>> /\ 1 <= selected_idx[1]
                /\ selected_idx[1] <= Len(unique_techs)
        THEN [valid |-> TRUE, techs |-> <<Tech(selected_idx[1])>>]
        ELSE IF Len(unique_techs) = 1
        THEN [valid |-> TRUE, techs |-> <<Tech(1)>>]
        ELSE [valid |-> FALSE, techs |-> <<>>]

\* selected_techs: the technologies the answer covers; valid is false when the
\* code returns "Invalid technology selection."
selected_techs_of(selected_idx, unique_techs, tech_to_stig) ==
    LET Tech(i) == DictGet(tech_to_stig, unique_techs[i]).technology
        n == Len(unique_techs)
    IN  IF selected_idx = <<0>>
        THEN [valid |-> TRUE, techs |-> [i \in 1..n |-> Tech(i)]]
        ELSE IF selected_idx # <<>> /\ 1 <= selected_idx[1] /\ selected_idx[1] <= n
        THEN [valid |-> TRUE, techs |-> <<Tech(selected_idx[1])>>]
        ELSE IF n = 1
        THEN [valid |-> TRUE, techs |-> <<Tech(1)>>]
        ELSE IF n = 0
        THEN [valid |-> TRUE, techs |-> <<>>]
        ELSE [valid |-> FALSE, techs |-> <<>>]

\* tech_hint: group 1 of tech_match, stripped and lowercased; <<>> for None
tech_hint_of(query_lower) == lower(strip(tech_match(query_lower)))

\* selected_idx: <<int(group 1)>> of system_match, <<>> for None
selected_idx_of(query_lower) ==
    LET Number(m) == IF m = <<>> THEN <<>> ELSE <<StrToInt(m)>>
    IN  Number(system_match(query_lower))

\* generate_response, lines 199-267: what an assess, audit or implement query
\* resolves to
Resolve(query, recs, stigs) ==
    LET Selected(control_ids, selected_idx, tech_hint, tech_to_stig, all_techs,
                 applicable_techs, unique_techs) ==
            [control_ids |-> control_ids,
             selected_idx |-> selected_idx,
             tech_hint |-> tech_hint,
             tech_to_stig |-> tech_to_stig,
             all_techs |-> all_techs,
             applicable_techs |-> applicable_techs,
             unique_techs |-> unique_techs,
             clarify |-> clarification_needed(selected_idx, unique_techs),
             selected |-> selected_techs_of(selected_idx, unique_techs, tech_to_stig)]
        Candidates(control_ids, selected_idx, tech_hint, tech_to_stig, all_techs,
                   applicable_techs) ==
            Selected(control_ids, selected_idx, tech_hint, tech_to_stig, all_techs,
                     applicable_techs,
                     unique_techs_of(tech_hint, all_techs, applicable_techs))
        Techs(control_ids, selected_idx, tech_hint, tech_to_stig) ==
            Candidates(control_ids, selected_idx, tech_hint, tech_to_stig,
                       sorted(Range(DictKeys(tech_to_stig))),
                       applicable_techs_of(tech_to_stig, control_ids, recs))
        Parsed(query_lower) ==
            Techs(extract_control_ids(query), selected_idx_of(query_lower),
                  tech_hint_of(query_lower), tech_to_stig_of(stigs))
    IN  Parsed(lower(query))

\* s.replace(old, new): the occurrences of old, left to right, none overlapping
RECURSIVE Replace(_, _, _)
Replace(s, old, new) ==
    LET At(i) == IF i = 0 THEN s
                 ELSE SubSeq(s, 1, i - 1) \o new
                      \o Replace(Slice(s, i + Len(old), Len(s)), old, new)
    IN  IF old = <<>> THEN s ELSE At(Find(old, s))

\* s.split(sep) for a non-empty sep
RECURSIVE SplitBy(_, _)
SplitBy(s, sep) ==
    LET At(i) == IF i = 0 THEN <<s>>
                 ELSE <<SubSeq(s, 1, i - 1)>>
                      \o SplitBy(Slice(s, i + Len(sep), Len(s)), sep)
    IN  At(Find(sep, s))

\* the tokens of a text: its words, and each other character that is not a space
RECURSIVE Tokens(_)
Tokens(s) ==
    LET WordTo(e) == <<SubSeq(s, 1, e)>> \o Tokens(Slice(s, e + 1, Len(s)))
    IN  IF s = <<>> THEN <<>>
        ELSE IF IsSpace(s[1]) THEN Tokens(Tail(s))
        ELSE IF IsWord(s[1]) THEN WordTo(RunEnd(s, 1, IsWord))
        ELSE WordTo(1)

action_verbs ==
    {<<"v","e","r","i","f","y">>, <<"e","n","s","u","r","e">>, <<"c","h","e","c","k">>, <<"r","e","v","i","e","w">>, <<"c","o","n","f","i","r","m">>, <<"e","x","a","m","i","n","e">>}

\* extract_actionable_steps: what it can return for a description. The tagger
\* and the dependency parser of spaCy decide, for every action verb of the
\* lowercased text, whether it is a verb and which word is its object: the verb
\* gives no step, or the step "<verb> <word>" with another word of the text.
\* Without a step the result is "verify " and the text up to its first "."
Parses(description) ==
    LET Steps(text, doc) ==
            LET Options(i) ==
                    {<<>>} \cup {<<doc[i] \o <<" ">> \o doc[j]>> :
                                    j \in {j \in 1..Len(doc) : j # i /\ IsWord(doc[j][1])}}
                StepsUpTo[i \in 0..Len(doc)] ==
                    IF i = 0 THEN {<<>>}
                    ELSE IF doc[i] \in action_verbs
                    THEN {a \o o : a \in StepsUpTo[i - 1], o \in Options(i)}
                    ELSE StepsUpTo[i - 1]
            IN  {IF steps # <<>> THEN steps ELSE <<<<"v","e","r","i","f","y"," ">> \o Before(text, <<".">>)>> :
                    steps \in StepsUpTo[Len(doc)]}
        Of(text) == Steps(text, Tokens(text))
    IN  Of(lower(description))

\* the loaded spaCy pipeline nlp: a function, the same text parses the same way
NlpModels ==
    LET Models(parses) ==
            {nlp \in [DOMAIN parses -> UNION {parses[d] : d \in DOMAIN parses}] :
                \A d \in DOMAIN parses : nlp[d] \in parses[d]}
        Of(data) == Models([d \in {data[i].description : i \in 1..Len(data)} |-> Parses(d)])
    IN  Of(catalog_data)

extract_actionable_steps(description, nlp) == nlp[description]

\* save_checklist: the Assessment Task of a NIST step
nist_task(step) ==
    LET Task(task) ==
            IF In(<<"[","a","s","s","i","g","n","m","e","n","t",":">>, task)
            THEN <<"V","e","r","i","f","y"," ">>
                 \o Replace(Replace(Replace(task, <<"[","a","s","s","i","g","n","m","e","n","t",":"," ","o","r","g","a","n","i","z","a","t","i","o","n","-","d","e","f","i","n","e","d"," ">>, <<>>),
                                    <<"]">>, <<>>),
                            <<"[","w","i","t","h","d","r","a","w","n",":"," ","i","n","c","o","r","p","o","r","a","t","e","d"," ","i","n","t","o"," ","a","c","-","6",".","]">>, <<"W","i","t","h","d","r","a","w","n"," ","(","s","e","e"," ","A","C","-","6",")">>)
                 \o <<" ","a","s"," ","d","e","f","i","n","e","d"," ","b","y"," ","y","o","u","r"," ","o","r","g","a","n","i","z","a","t","i","o","n",".">>
            ELSE <<"V","e","r","i","f","y"," ">> \o capitalize(task) \o <<".">>
    IN  Task(strip(Replace(Replace(lower(step), <<"t","o"," ","a","s","s","e","s","s"," ","t","h","i","s"," ","c","o","n","t","r","o","l",","," ","v","e","r","i","f","y"," ">>, <<>>),
                           <<"c","h","e","c","k"," ","p","a","r","a","m","e","t","e","r","s",":"," ","n","o","n","e"," ","s","p","e","c","i","f","i","e","d">>, <<>>)))

\* save_checklist: line[1] of a one-character line that starts with a digit
\* raises IndexError
FixRaises(fix) ==
    LET Short(line) == Len(line) = 1 /\ IsDigit(line[1])
        Some(fix_lines) == \E i \in 1..Len(fix_lines) : Short(strip(fix_lines[i]))
    IN  Some(SplitBy(fix, <<"\n">>))

\* save_checklist: formatted_fix, a numbered line or the first line starts an
\* item, any other line continues the last item
formatted_fix(fix) ==
    LET Add(acc, line) ==
            IF line = <<>> THEN acc
            ELSE IF Len(line) >= 2 /\ IsDigit(line[1]) /\ line[2] = "."
            THEN Append(acc, <<"-"," ">> \o line)
            ELSE IF acc # <<>>
            THEN [acc EXCEPT ![Len(acc)] = @ \o <<" ">> \o line]
            ELSE Append(acc, <<"-"," ">> \o line)
        Of(fix_lines) ==
            LET Fmt[i \in 0..Len(fix_lines)] ==
                    IF i = 0 THEN <<>> ELSE Add(Fmt[i - 1], strip(fix_lines[i]))
            IN  Fmt[Len(fix_lines)]
    IN  Of(SplitBy(fix, <<"\n">>))

\* "\n".join(lines)
RECURSIVE JoinLines(_)
JoinLines(lines) ==
    IF lines = <<>> THEN <<>>
    ELSE IF Len(lines) = 1 THEN lines[1]
    ELSE lines[1] \o <<"\n">> \o JoinLines(Tail(lines))

\* save_checklist: a row of the CSV file after its header row
Row(source, id, action, n, task, severity, evidence) ==
    [source |-> source, id |-> id, action |-> action, n |-> n, task |-> task,
     severity |-> severity, evidence |-> evidence, status |-> <<"P","e","n","d","i","n","g">>]

\* save_checklist: the file checklist_<control_id>_<time>.csv, one row for every
\* step and one for every recommendation of stig_recommendations. The file is
\* not written when the folder or the file cannot be opened; a recommendation
\* whose fix raises ends the writing, the rows before it written
save_checklist(control_id, steps, stig_recommendations, stamp, writable) ==
    LET StigRow(tech, rec) ==
            Row(<<"S","T","I","G"," ">> \o tech, rec.rule_id, "Configure and Verify", 0,
                <<"V","e","r","i","f","y"," ">> \o rec.title \o <<":">> \o <<"\n">>
                    \o JoinLines(formatted_fix(rec.fix)),
                capitalize(rec.severity),
                "Configuration settings, logs, or admin console screenshots")
        Upto(bad, n) == IF bad = {} THEN n
                        ELSE (CHOOSE i \in bad : \A j \in bad : i <= j) - 1
        Rows(before, tech, rec_list, bad) ==
            IF before.raised THEN before
            ELSE [rows |-> before.rows
                           \o [i \in 1..Upto(bad, Len(rec_list)) |->
                                  StigRow(tech, rec_list[i])],
                  raised |-> bad # {}]
        Item(before, item) ==
            Rows(before, item.key, item.val,
                 {i \in 1..Len(item.val) : FixRaises(item.val[i].fix)})
        RecRows[k \in 0..Len(stig_recommendations)] ==
            IF k = 0 THEN [rows |-> <<>>, raised |-> FALSE]
            ELSE Item(RecRows[k - 1], stig_recommendations[k])
        File(stig_rows) ==
            [written |-> TRUE, raised |-> stig_rows.raised, control_id |-> control_id,
             stamp |-> stamp,
             rows |-> [i \in 1..Len(steps) |->
                          Row(<<"N","I","S","T"," ","8","0","0","-","5","3">>, control_id, "Verify Compliance ({n})", i,
                              nist_task(steps[i]), <<"N","/","A">>,
                              "Access control policy, logs, or config screenshots")]
                      \o stig_rows.rows]
    IN  IF ~writable
        THEN [written |-> FALSE, raised |-> TRUE, control_id |-> control_id,
              stamp |-> stamp, rows |-> <<>>]
        ELSE File(RecRows[Len(stig_recommendations)])

\* [doc.split(': ', 1)[1] for doc in docs]
AfterColon(docs) == [i \in 1..Len(docs) |-> After(docs[i], <<":"," ">>)]

\* [doc.split(': ', 1)[1] for doc in retrieved_docs if "Assessment, <id>" in doc]
assess_docs_of(retrieved_docs, control_id) ==
    AfterColon(FilterSeq(retrieved_docs,
                         {d \in Range(retrieved_docs) :
                             In(<<"A","s","s","e","s","s","m","e","n","t",","," ">> \o control_id, d)}))

\* [doc.split(': ', 1)[1] for doc in retrieved_docs
\*  if control_id in doc and "Assessment" not in doc]
guidance_of(retrieved_docs, control_id) ==
    AfterColon(FilterSeq(retrieved_docs,
                         {d \in Range(retrieved_docs) :
                             In(control_id, d) /\ ~In(<<"A","s","s","e","s","s","m","e","n","t">>, d)}))

\* the numbered lines of a list of steps
StepLines(steps) == [i \in 1..Len(steps) |-> Line("     {n}. {0}", i, <<steps[i]>>)]

\* the STIG sections of one control: for every selected technology its
\* recommendations for the control, or the line that there are none
StigLines(selected_techs, control_id, recs, assessing) ==
    LET short_title(title) == IF Len(title) > 50 THEN SubSeq(title, 1, 50) \o <<".",".",".">>
                              ELSE title
        Rec(rec, i) ==
            IF assessing
            THEN << Line("     {n}. {0} (Rule {1})", i, <<rec.title, rec.rule_id>>),
                    Line("        - Verify: {0}", 0, <<rec.fix>>),
                    Line("        - Severity: {0}", 0, <<capitalize(rec.severity)>>) >>
            ELSE << Line("     {n}. {0} (Rule {1})", i, <<short_title(rec.title), rec.rule_id>>),
                    Line("        - Apply: {0}", 0, <<rec.fix>>) >>
        Section(tech, rl) ==
            LET Recs[i \in 0..Len(rl)] == IF i = 0 THEN <<>> ELSE Recs[i - 1] \o Rec(rl[i], i)
            IN  << Line(IF assessing THEN "   STIG Checks for {0}:"
                        ELSE "   STIG Guidance for {0}:", 0, <<tech>>) >>
                \o (IF rl # <<>> THEN Recs[Len(rl)]
                    ELSE << Line(IF assessing THEN "     1. No specific STIG checks available."
                                 ELSE "     1. No specific STIG guidance available.",
                                 0, <<>>) >>)
                \o <<Blank>>
        Sections[k \in 0..Len(selected_techs)] ==
            IF k = 0 THEN <<>>
            ELSE Sections[k - 1]
                 \o Section(selected_techs[k], RecsOf(recs, selected_techs[k], control_id))
    IN  Sections[Len(selected_techs)]

\* stig_recs_for_checklist: the selected technologies that have recommendations
\* for the control, each with them
RECURSIVE ChecklistRecs(_, _, _, _)
ChecklistRecs(selected_techs, control_id, recs, d) ==
    LET Put(tech, rl) ==
            ChecklistRecs(Tail(selected_techs), control_id, recs,
                          IF rl # <<>> THEN DictPut(d, tech, rl) ELSE d)
    IN  IF selected_techs = <<>> THEN d
        ELSE Put(selected_techs[1], RecsOf(recs, selected_techs[1], control_id))

\* generate_response, lines 275-352: one pass of the loop over control_ids.
\* st holds what the loop carries from one control to the next: the response,
\* the local assess_docs (bound or not), the checklists saved and whether
\* save_checklist raised
ControlStep(st, control_id, stamp, c) ==
    LET Saved(shown, bound, assess_docs, saving, file) ==
            [response |-> st.response \o shown
                          \o (IF saving /\ ~file.raised
                              THEN << Line("   - Checklist Saved: See 'assessment_checklists/checklist_{0}_{n}.csv'", stamp, <<control_id>>),
                                      Blank >>
                              ELSE <<>>),
             bound |-> bound,
             assess_docs |-> assess_docs,
             saved |-> IF saving /\ file.written THEN Append(st.saved, file)
                       ELSE st.saved,
             raised |-> saving /\ file.raised]
        Checklist(shown, bound, assess_docs, checklist_steps, stig_recs) ==
            Saved(shown, bound, assess_docs,
                  c.generate_checklist /\ (checklist_steps # <<>> \/ stig_recs # <<>>),
                  save_checklist(control_id, checklist_steps, stig_recs, stamp, c.writable))
        Shown(head, ctrl, in_procedures, bound, assess_docs, steps) ==
            Checklist(head \o << Line("   Steps to Assess:", 0, <<>>) >>
                      \o StepLines(IF in_procedures THEN assessment_procedures[control_id]
                                   ELSE steps)
                      \o (IF ~in_procedures /\ ctrl.parameters # <<>>
                          THEN << Line("     {n}. Confirm parameters: {0}", Len(steps) + 1,
                                       <<JoinComma(ctrl.parameters)>>) >>
                          ELSE <<>>)
                      \o <<Blank>>
                      \o StigLines(c.selected_techs, control_id, c.recs, TRUE),
                      bound, assess_docs,
                      IF bound THEN assess_docs
                      ELSE extract_actionable_steps(ctrl.description, c.nlp),
                      ChecklistRecs(c.selected_techs, control_id, c.recs, <<>>))
        Docs(head, ctrl, in_procedures, assess_docs) ==
            Shown(head, ctrl, in_procedures, st.bound \/ ~in_procedures, assess_docs,
                  IF assess_docs # <<>> THEN assess_docs
                  ELSE extract_actionable_steps(ctrl.description, c.nlp))
        Assess(head, ctrl, in_procedures) ==
            Docs(head, ctrl, in_procedures,
                 IF in_procedures THEN st.assess_docs
                 ELSE assess_docs_of(c.retrieved_docs, control_id))
        Implement(head, guidance) ==
            [st EXCEPT !.response =
                @ \o head \o << Line("   How to Implement:", 0, <<>>) >>
                  \o (IF guidance # <<>> THEN StepLines(guidance)
                      ELSE << Line("     1. Follow the control description to enforce this requirement.", 0, <<>>) >>)
                  \o <<Blank>>
                  \o StigLines(c.selected_techs, control_id, c.recs, FALSE)]
        Known(ctrl, head) ==
            IF c.is_assessment_query
            THEN Assess(head, ctrl, control_id \in DOMAIN assessment_procedures)
            ELSE Implement(head, guidance_of(c.retrieved_docs, control_id))
        Control(ctrl) ==
            Known(ctrl, << Line("1. {0} - {1}", 0, <<control_id, ctrl.title>>),
                           Line("   - Purpose: {0}.", 0, <<lower(Before(ctrl.description, <<".">>))>>),
                           Blank >>)
    IN  IF control_id \notin DOMAIN control_details
        THEN [st EXCEPT !.response = @ \o << Line("1. {0}", 0, <<control_id>>),
                                             Line("   - Status: Not found in NIST 800-53 Rev 5 catalog.", 0, <<>>),
                                             Blank >>]
        ELSE Control(control_details[control_id])

\* the loop over control_ids; an exception of save_checklist ends it
RECURSIVE ControlLoop(_, _, _, _)
ControlLoop(st, control_ids, k, c) ==
    IF k > Len(control_ids) \/ st.raised THEN st
    ELSE ControlLoop(ControlStep(st, control_ids[k], c.stamps[k], c),
                     control_ids, k + 1, c)

\* what generate_response did: the response it returned, line by line, the
\* checklist files it wrote and whether it raised instead of returning
Returned(response) == [response |-> response, saved |-> <<>>, raised |-> FALSE]

\* a classifier that looks for control ids before it looks for a CCI: C10
\* tells the code from this
IntentControlsFirst(query) ==
    LET Of(query_lower) ==
            IF reverse_match(query_lower) # <<>> THEN "reverse_lookup"
            ELSE IF In(<<"s","h","o","w"," ","c","c","i"," ","m","a","p","p","i","n","g","s">>, query_lower) THEN "cci_summary"
            ELSE IF control_summary_match(query_lower) # <<>> THEN "control_summary"
            ELSE IF In(<<"l","i","s","t"," ","s","t","i","g","s">>, query_lower) THEN "list_stigs"
            ELSE IF extract_control_ids(query) = <<>> THEN "no_controls"
            ELSE IF cci_match(query_lower) # <<>> THEN "cci_lookup"
            ELSE IF ~(\/ In(<<"a","s","s","e","s","s">>, query_lower)
                      \/ In(<<"a","u","d","i","t">>, query_lower)
                      \/ In(<<"i","m","p","l","e","m","e","n","t">>, query_lower)) THEN "generic"
            ELSE "guidance"
    IN  Of(lower(query))

\* generate_response, lines 103-215: the path a query takes, the first of the
\* tests it passes in the order the code makes them
Intent(query) ==
    LET Of(query_lower) ==
            IF cci_match(query_lower) # <<>> THEN "cci_lookup"
            ELSE IF reverse_match(query_lower) # <<>> THEN "reverse_lookup"
            ELSE IF In(<<"s","h","o","w"," ","c","c","i"," ","m","a","p","p","i","n","g","s">>, query_lower) THEN "cci_summary"
            ELSE IF control_summary_match(query_lower) # <<>> THEN "control_summary"
            ELSE IF In(<<"l","i","s","t"," ","s","t","i","g","s">>, query_lower) THEN "list_stigs"
            ELSE IF extract_control_ids(query) = <<>> THEN "no_controls"
            ELSE IF ~(\/ In(<<"a","s","s","e","s","s">>, query_lower)
                      \/ In(<<"a","u","d","i","t">>, query_lower)
                      \/ In(<<"i","m","p","l","e","m","e","n","t">>, query_lower)) THEN "generic"
            ELSE "guidance"
    IN  Of(lower(query))

\* generate_response. c holds what the call reads besides its arguments: the
\* pipeline nlp, the clock readings stamps and whether checklists can be written
generate_response(query, retrieved_docs, recs, stigs, generate_checklist, c) ==
    LET Done(done) ==
            [response |-> IF Len(done.response) <= 2 /\ ~done.raised
                          THEN Append(done.response, Line("No specific information found for this query.", 0, <<>>))
                          ELSE done.response,
             saved |-> done.saved,
             raised |-> done.raised]
        Loop(r, is_assessment_query) ==
            Done(ControlLoop(
                [response |-> << Line(IF is_assessment_query THEN "### Assessing {0}"
                                      ELSE "### Implementing {0}",
                                      0, <<JoinComma(r.control_ids)>>),
                                 Line("Based on NIST 800-53 Rev 5 and available STIGs:\n", 0, <<>>) >>,
                 bound |-> FALSE, assess_docs |-> <<>>, saved |-> <<>>,
                 raised |-> FALSE],
                r.control_ids, 1,
                [is_assessment_query |-> is_assessment_query,
                 retrieved_docs |-> retrieved_docs,
                 recs |-> recs,
                 selected_techs |-> r.selected.techs,
                 generate_checklist |-> generate_checklist,
                 nlp |-> c.nlp, stamps |-> c.stamps,
                 writable |-> c.writable]))
        Guidance(r, query_lower) ==
            IF r.clarify
            THEN Returned(clarification(r.control_ids, r.unique_techs, r.tech_to_stig))
            ELSE IF ~r.selected.valid
            THEN Returned(<< Line("Invalid technology selection.", 0, <<>>) >>)
            ELSE Loop(r, In(<<"a","s","s","e","s","s">>, query_lower) \/ In(<<"a","u","d","i","t">>, query_lower))
        Of(intent, query_lower) ==
            IF intent = "cci_lookup" THEN Returned(cci_lookup(cci_match(query_lower)))
            ELSE IF intent = "reverse_lookup"
            THEN Returned(reverse_lookup(reverse_match(query_lower)))
            ELSE IF intent = "cci_summary" THEN Returned(cci_summary)
            ELSE IF intent = "control_summary"
            THEN Returned(control_summary(control_summary_match(query_lower)))
            ELSE IF intent = "list_stigs" THEN Returned(list_stigs(query_lower, stigs))
            ELSE IF intent = "no_controls"
            THEN Returned(<< Line("**No NIST controls detected.** Try including a control ID like 'AU-3'.", 0, <<>>) >>)
            ELSE IF intent = "generic"
            THEN Returned(generic_answer(query, retrieved_docs))
            ELSE Guidance(Resolve(query, recs, stigs), query_lower)
    IN  Of(Intent(query), lower(query))

\* what the user types: the lines the model reads from the terminal
Typed ==
    [ exit |-> <<"e","x","i","t">>,
      help |-> <<" ","H","e","l","p"," ">>,
      show_unknown |-> <<"s","h","o","w"," ","u","n","k","n","o","w","n">>,
      empty |-> <<" "," ">>,
      cci |-> <<"W","h","a","t"," ","i","s"," ","C","C","I","-","0","0","0","1","3","0","?">>,
      cci_assess |-> <<"a","s","s","e","s","s"," ","A","C","-","1"," ","C","C","I","-","0","0","0","0","0","1">>,
      cci_stigs |-> <<"l","i","s","t"," ","s","t","i","g","s"," ","f","o","r"," ","C","C","I","-","0","0","0","1","3","0">>,
      reverse |-> <<"l","i","s","t"," ","c","c","i"," ","m","a","p","p","i","n","g","s"," ","f","o","r"," ","A","C","-","1">>,
      reverse_please |-> <<"c","c","i"," ","m","a","p","p","i","n","g","s"," ","f","o","r"," ","A","C","-","1"," ","p","l","e","a","s","e">>,
      reverse_9 |-> <<"S","h","o","w"," ","C","C","I"," ","m","a","p","p","i","n","g","s"," ","f","o","r"," ","A","C","-","0","9">>,
      summary |-> <<"s","h","o","w"," ","c","c","i"," ","m","a","p","p","i","n","g","s">>,
      what_is |-> <<"w","h","a","t"," ","i","s"," ","A","C","-","1","?">>,
      stigs |-> <<"l","i","s","t"," ","s","t","i","g","s">>,
      stigs_windows |-> <<"l","i","s","t"," ","s","t","i","g","s"," ","f","o","r"," ","w","i","n","d","o","w","s">>,
      stigs_solaris |-> <<"l","i","s","t"," ","s","t","i","g","s"," ","f","o","r"," ","s","o","l","a","r","i","s">>,
      stigs_fortinet |-> <<"L","i","s","t"," ","S","T","I","G","s"," ","f","o","r"," ","F","o","r","t","i","n","e","t">>,
      hello |-> <<"h","e","l","l","o">>,
      generic |-> <<"A","C","-","1">>,
      assess_1 |-> <<"a","s","s","e","s","s"," ","A","C","-","1">>,
      assess_01 |-> <<"a","s","s","e","s","s"," ","A","C","-","0","1">>,
      assess_17 |-> <<"a","s","s","e","s","s"," ","A","C","-","1","7">>,
      audit_9 |-> <<"a","u","d","i","t"," ","A","C","-","9">>,
      assess_both |-> <<"a","s","s","e","s","s"," ","A","C","-","1","7"," ","A","C","-","1">>,
      assess_1_17 |-> <<"a","s","s","e","s","s"," ","A","C","-","1"," ","A","C","-","1","7">>,
      assess_twice |-> <<"a","s","s","e","s","s"," ","A","C","-","1"," ","A","C","-","1">>,
      implement_1 |-> <<"i","m","p","l","e","m","e","n","t"," ","A","C","-","1">>,
      on_windows |-> <<"i","m","p","l","e","m","e","n","t"," ","A","C","-","1","7"," ","o","n"," ","w","i","n","d","o","w","s">>,
      how_au2 |-> <<"H","o","w"," ","s","h","o","u","l","d"," ","A","U","-","2"," ","b","e"," ","i","m","p","l","e","m","e","n","t","e","d"," ","o","n"," ","W","i","n","d","o","w","s"," ","1","0","?">>,
      on_windows_q |-> <<"i","m","p","l","e","m","e","n","t"," ","A","C","-","1","7"," ","o","n"," ","w","i","n","d","o","w","s","?">>,
      ia5_for |-> <<"H","o","w"," ","s","h","o","u","l","d"," ","I","A","-","5"," ","b","e"," ","i","m","p","l","e","m","e","n","t","e","d"," ","f","o","r"," ","W","i","n","d","o","w","s","?">>,
      ia5_on |-> <<"H","o","w"," ","s","h","o","u","l","d"," ","I","A","-","5"," ","b","e"," ","i","m","p","l","e","m","e","n","t","e","d"," ","o","n"," ","W","i","n","d","o","w","s","?">>,
      index_5 |-> <<"a","s","s","e","s","s"," ","A","C","-","1"," ","w","i","t","h"," ","t","e","c","h","n","o","l","o","g","y"," ","i","n","d","e","x"," ","5">>,
      zero |-> <<"0">>,
      one |-> <<"1">>,
      two |-> <<"2">>,
      x |-> <<"x">>,
      y |-> <<"y">>,
      n |-> <<" ","N">>,
      nothing |-> <<>> ]

\* ------------------------------------------------------------ main loop

\* the most questions a session asks (the lines typed at the question prompt
\* that reach retrieve_documents)
MaxQuestions == 1

\* the clock, in seconds: the latest time a checklist can be stamped with
MaxTime == 1

Questions ==
    { Typed.exit, Typed.help, Typed.show_unknown, Typed.empty, Typed.cci,
      Typed.cci_assess, Typed.cci_stigs, Typed.reverse, Typed.reverse_please,
      Typed.reverse_9, Typed.summary,
      Typed.what_is, Typed.stigs, Typed.stigs_windows, Typed.stigs_solaris,
      Typed.stigs_fortinet, Typed.hello,
      Typed.generic, Typed.assess_1, Typed.assess_01, Typed.assess_17,
      Typed.audit_9,
      Typed.assess_both, Typed.assess_1_17, Typed.assess_twice, Typed.implement_1, Typed.on_windows,
      Typed.on_windows_q, Typed.ia5_for, Typed.ia5_on, Typed.how_au2, Typed.index_5 }

ChecklistReplies == {Typed.y, Typed.n, Typed.x, Typed.nothing}

SelectionReplies == {Typed.zero, Typed.one, Typed.two, Typed.x, Typed.nothing}

VARIABLES
    stig_folder,                \* the *.xml files of the STIG folder, in glob's order
    pc,                         \* where main is: "loop", at the top of its loop;
                                \* "input", "checklist", "select", in input();
                                \* "call", "retry", before generate_response;
                                \* "exited"; "crashed", ended by an exception
    available_stigs,            \* load_stig_data's list of loaded STIGs
    all_stig_recommendations,   \* technology -> control -> recommendations
    nlp,                        \* the spaCy pipeline text_processing loaded
    query,                      \* main's locals
    generate_checklist,
    checklist_response,         \* main's local: unbound, or the line read at the
                                \* checklist prompt, stripped and in lower case
    retrieved_docs,
    response,
    selected_idx,               \* main's local: unbound, or the line read at the
                                \* selection prompt, stripped (main rebinds a
                                \* line of digits to its int)
    out,                        \* the lines the last step printed
    files,                      \* assessment_checklists: <<control, time>> -> rows
    now,                        \* the latest clock reading
    unknown_queries,            \* the list in unknown_queries.pkl
    asked,                      \* the questions asked so far
    given_id,                   \* normalize_control_id called on its own: the
                                \* string it is first called with
    normalized,                 \* what it returned, call after call, each call
                                \* after the first made with the last result
    exported,                   \* save_checklist called on its own: the calls
                                \* made, the arguments and the file of each
    index_files,                \* build_vector_store called on its own: the
                                \* faiss_index_*.pkl files of the knowledge folder
    built,                      \* and the calls made, the arguments and the
                                \* outcome of each
    retrieved                   \* retrieve_documents called on its own: the calls
                                \* made, the arguments and the result of each

vars == <<stig_folder, pc, available_stigs, all_stig_recommendations, nlp,
          query, generate_checklist, checklist_response, retrieved_docs, response,
          selected_idx, out, files, now, unknown_queries, asked, given_id, normalized, exported,
          index_files, built, retrieved>>

\* the state of the functions called on their own, outside a session of main
lib == <<given_id, normalized, exported, index_files, built, retrieved>>

\* the state of a session of main
session == <<pc, query, generate_checklist, checklist_response, retrieved_docs,
             response, selected_idx, out, files, now, unknown_queries, asked>>

kb == <<stig_folder, available_stigs, all_stig_recommendations, nlp>>

\* a local of main no line has been read into yet
Unbound == [bound |-> FALSE, text |-> <<>>]

\* "needle" in response, for a response held line by line: a text of a line
\* holds it (no format of T holds main's marker)
MarkerIn(lines) ==
    \E i \in 1..Len(lines) : \E k \in 1..Len(lines[i].texts) :
        In(<<"M","u","l","t","i","p","l","e"," ","S","T","I","G"," ","t","e","c","h","n","o","l","o","g","i","e","s"," ","a","v","a","i","l","a","b","l","e">>, lines[i].texts[k])

\* "not found" in response.lower() or "no specific" in response.lower(): a
\* format of T holds one of them, or a text of a line does
UnknownIn(lines) ==
    \E i \in 1..Len(lines) :
        \/ lines[i].tag \in {"Control {0} not found in the NIST 800-53 Revision 5 catalog.", "   - Status: Not found in NIST 800-53 Rev 5 catalog.",
                             "     1. No specific STIG checks available.", "     1. No specific STIG guidance available.", "No specific information found for this query."}
        \/ \E k \in 1..Len(lines[i].texts) :
               \/ In(<<"n","o","t"," ","f","o","u","n","d">>, lower(lines[i].texts[k]))
               \/ In(<<"n","o"," ","s","p","e","c","i","f","i","c">>, lower(lines[i].texts[k]))

\* main after load_stig_data: the STIG folder holds any of the folders, nothing
\* asked yet
Init ==
    /\ stig_folder \in StigFolders
    /\ \E loaded \in {load_stig_data(stig_folder)} :
           /\ available_stigs = loaded.available_stigs
           /\ all_stig_recommendations = loaded.all_stig_recommendations
    /\ nlp \in NlpModels
    /\ pc = "loop"
    /\ query = <<>>
    /\ generate_checklist = FALSE
    /\ checklist_response = Unbound
    /\ retrieved_docs = <<>>
    /\ response = <<>>
    /\ selected_idx = Unbound
    /\ out = <<>>
    /\ files = <<>>
    /\ now = 0
    /\ unknown_queries = <<>>
    /\ asked = 0
    /\ given_id = <<>>
    /\ normalized = <<>>
    /\ exported = <<>>
    /\ index_files = <<>>
    /\ built = <<>>
    /\ retrieved = <<>>

\* main, line 95: the top of the loop prints the question prompt and waits in
\* input(); the locals of the last pass are dead, every pass assigns them
\* before it reads them
Prompt ==
    /\ pc = "loop"
    /\ pc' = "input"
    /\ out' = << Line("Enter your compliance question (e.g., 'How do I assess AU-3?', 'exit'):", 0, <<>>) >>
    /\ query' = <<>>
    /\ generate_checklist' = FALSE
    /\ checklist_response' = Unbound
    /\ retrieved_docs' = <<>>
    /\ response' = <<>>
    /\ selected_idx' = Unbound
    /\ UNCHANGED <<kb, lib, files, now, unknown_queries, asked>>

\* the checklist files after the files of saved were written, each in turn
RECURSIVE Written(_, _)
Written(fs, saved) ==
    IF saved = <<>> THEN fs
    ELSE Written(DictPut(fs, <<saved[1].control_id, saved[1].stamp>>, saved[1].rows),
                 Tail(saved))

\* what a call of generate_response reads besides its arguments: clock readings
\* from start on, dt apart, for the checklists of its controls
Call(n, start, dt, writable) ==
    [nlp |-> nlp,
     stamps |-> [k \in 1..n |->
                    IF start + (k - 1) * dt > MaxTime THEN MaxTime
                    ELSE start + (k - 1) * dt],
     writable |-> writable]

\* the calls a query can meet: the clock readings and the state of the disk
\* matter to a call that saves checklists only
Calls(q) ==
    LET Of(n) ==
            {Call(n, start, dt, writable) :
                start \in IF generate_checklist THEN {t \in {now, now + 1} : t <= MaxTime}
                          ELSE {now},
                dt \in IF generate_checklist /\ n > 1 THEN {0, 1} ELSE {0},
                writable \in IF generate_checklist THEN BOOLEAN ELSE {TRUE}}
    IN  Of(Len(extract_control_ids(q)))

\* main, line 133: what retrieve_documents can return for the query
Retrievals(q) ==
    {retrieve_documents(q, indices, all_documents) :
        indices \in SearchResults(Len(all_documents))}

\* main, lines 144-148: the response is printed as the answer, the query
\* recorded as unknown when the response says so or nothing was retrieved
Finish(q, resp, docs) ==
    LET Of(unknown) ==
            [pc |-> "loop",
             response |-> IF unknown
                          THEN Append(resp, Line("Note: This query has been recorded for future improvement. Type 'show unknown' to see all recorded queries.", 0, <<>>))
                          ELSE resp,
             unknown_queries |-> IF unknown /\ q \notin Range(unknown_queries)
                                 THEN Append(unknown_queries, q) ELSE unknown_queries]
        Printed(to) ==
            [pc |-> to.pc, response |-> to.response,
             unknown_queries |-> to.unknown_queries,
             out |-> << Line("\n### Response to '{0}'", 0, <<q>>) >> \o to.response
                     \o <<Blank>>]
    IN  Printed(Of(UnknownIn(resp) \/ Len(docs) = 0))

\* main, lines 135-148, after generate_response did r: an exception ends the
\* program; the first response of a query, when it holds main's marker, is
\* printed and the selection awaited; any other response is the answer
Outcome(q, docs, r, first) ==
    LET Of(rest) ==
            [pc |-> rest.pc, response |-> rest.response,
             unknown_queries |-> rest.unknown_queries, out |-> rest.out,
             files |-> Written(files, r.saved),
             now |-> IF r.saved # <<>> THEN r.saved[Len(r.saved)].stamp ELSE now]
    IN  Of(IF r.raised
           THEN [pc |-> "crashed", response |-> response,
                 unknown_queries |-> unknown_queries,
                 out |-> << Line("Traceback (most recent call last):", 0, <<>>),
                            Line("  File \"{0}\", line {n}, in {1}", 50,
                                 <<<<"r","e","s","p","o","n","s","e","_","g","e","n","e","r","a","t","o","r",".","p","y">>, <<"s","a","v","e","_","c","h","e","c","k","l","i","s","t">>>>) >>]
           ELSE IF first /\ MarkerIn(r.response)
           THEN [pc |-> "select", response |-> r.response,
                 unknown_queries |-> unknown_queries,
                 out |-> r.response]
           ELSE Finish(q, r.response, docs))

\* main, line 133: model.encode raised in retrieve_documents, no handler on
\* the way up; the exception ends the program
EncodeRaised ==
    [pc |-> "crashed", response |-> response, unknown_queries |-> unknown_queries,
     out |-> << Line("Traceback (most recent call last):", 0, <<>>),
                Line("  File \"{0}\", line {n}, in {1}", 66,
                     <<<<"v","e","c","t","o","r","_","s","t","o","r","e",".","p","y">>, <<"r","e","t","r","i","e","v","e","_","d","o","c","u","m","e","n","t","s">>>>) >>,
     files |-> files, now |-> now]

\* MetaLines with help and show unknown compared as typed, in lower case only
MetaLinesCaseSensitive(q) ==
    IF q = <<"h","e","l","p">>
    THEN << Line("Examples:", 0, <<>>),
            Line("- How should IA-5 be implemented for Windows?", 0, <<>>),
            Line("- How do I assess AU-3?", 0, <<>>),
            Line("- What is CCI-000130? (CCI lookup)", 0, <<>>),
            Line("- List CCI mappings for AU-3 (Reverse CCI lookup)", 0, <<>>),
            Line("- Show CCI mappings (CCI summary)", 0, <<>>),
            Line("- List STIGs", 0, <<>>),
            Line("- Show unknown (displays previously unhandled queries)", 0, <<>>) >>
    ELSE IF q = <<"s","h","o","w"," ","u","n","k","n","o","w","n">>
    THEN (IF unknown_queries # <<>>
          THEN << Line("Previously unhandled queries:", 0, <<>>) >>
               \o [i \in 1..Len(unknown_queries) |->
                      Line("{n}. {0}", i, <<unknown_queries[i]>>)]
          ELSE << Line("No unknown queries recorded yet.", 0, <<>>) >>)
    ELSE << Line("Please enter a query or type 'help' for examples.", 0, <<>>) >>

\* help, show unknown and the empty line: what main prints before it loops
MetaLines(q) ==
    IF lower(q) = <<"h","e","l","p">>
    THEN << Line("Examples:", 0, <<>>),
            Line("- How should IA-5 be implemented for Windows?", 0, <<>>),
            Line("- How do I assess AU-3?", 0, <<>>),
            Line("- What is CCI-000130? (CCI lookup)", 0, <<>>),
            Line("- List CCI mappings for AU-3 (Reverse CCI lookup)", 0, <<>>),
            Line("- Show CCI mappings (CCI summary)", 0, <<>>),
            Line("- List STIGs", 0, <<>>),
            Line("- Show unknown (displays previously unhandled queries)", 0, <<>>) >>
    ELSE IF lower(q) = <<"s","h","o","w"," ","u","n","k","n","o","w","n">>
    THEN (IF unknown_queries # <<>>
          THEN << Line("Previously unhandled queries:", 0, <<>>) >>
               \o [i \in 1..Len(unknown_queries) |->
                      Line("{n}. {0}", i, <<unknown_queries[i]>>)]
          ELSE << Line("No unknown queries recorded yet.", 0, <<>>) >>)
    ELSE << Line("Please enter a query or type 'help' for examples.", 0, <<>>) >>

\* main, lines 97-132: a line is read at the question prompt. exit ends the
\* loop; help, show unknown and the empty line are answered at once; a query
\* with "assess" or "audit" is asked whether to generate a checklist; any other
\* query goes on to be processed
ReadQuery ==
    /\ pc = "input"
    /\ \E typed \in Questions : \E q \in {strip(typed)} : \E low \in {lower(q)} :
        /\ query' = q
        /\ generate_checklist' = FALSE
        /\ UNCHANGED <<kb, lib, checklist_response, selected_idx, retrieved_docs,
                       response, files, now,
                       unknown_queries, asked>>
        /\ IF low = <<"e","x","i","t">>
           THEN /\ pc' = "exited"
                /\ out' = <<>>
           ELSE IF low \in {<<"h","e","l","p">>, <<"s","h","o","w"," ","u","n","k","n","o","w","n">>} \/ q = <<>>
           THEN /\ pc' = "loop"
                /\ out' = MetaLines(q)
           ELSE /\ asked < MaxQuestions
                /\ IF In(<<"a","s","s","e","s","s">>, low) \/ In(<<"a","u","d","i","t">>, low)
                   THEN /\ pc' = "checklist"
                        /\ out' = << Line("Generate an assessment checklist for this query? (y/n): ", 0, <<>>) >>
                   ELSE /\ pc' = "call"
                        /\ out' = << Line("\nProcessing...", 0, <<>>) >>

\* AnswerChecklist with a checklist generated after y and after n alike
AnswerChecklistEither ==
    /\ pc = "checklist"
    /\ \E typed \in ChecklistReplies : \E line \in {lower(strip(typed))} :
        /\ checklist_response' = [bound |-> TRUE, text |-> line]
        /\ UNCHANGED <<kb, lib, query, selected_idx, retrieved_docs, response, files,
                       now, unknown_queries, asked>>
        /\ IF line \in {<<"y">>, <<"n">>}
           THEN /\ pc' = "call"
                /\ generate_checklist' = TRUE
                /\ out' = << Line("\nProcessing...", 0, <<>>) >>
           ELSE /\ pc' = "checklist"
                /\ generate_checklist' = generate_checklist
                /\ out' = << Line("Please enter 'y' for yes or 'n' for no.", 0, <<>>),
                             Line("Generate an assessment checklist for this query? (y/n): ", 0, <<>>) >>

\* main, lines 125-132: a line is read at the checklist prompt. y and n set
\* generate_checklist and the query goes on to be processed; any other line is
\* asked again
AnswerChecklist ==
    /\ pc = "checklist"
    /\ \E typed \in ChecklistReplies : \E line \in {lower(strip(typed))} :
        /\ checklist_response' = [bound |-> TRUE, text |-> line]
        /\ UNCHANGED <<kb, lib, query, selected_idx, retrieved_docs, response, files,
                       now, unknown_queries, asked>>
        /\ IF line \in {<<"y">>, <<"n">>}
           THEN /\ pc' = "call"
                /\ generate_checklist' = (line = <<"y">>)
                /\ out' = << Line("\nProcessing...", 0, <<>>) >>
           ELSE /\ pc' = "checklist"
                /\ generate_checklist' = generate_checklist
                /\ out' = << Line("Please enter 'y' for yes or 'n' for no.", 0, <<>>),
                             Line("Generate an assessment checklist for this query? (y/n): ", 0, <<>>) >>

\* main, lines 139-148: a line is read after a response with the marker. A
\* line of digits goes on to call generate_response again; after any other
\* line the response main holds is the answer
EnterSelection ==
    /\ pc = "select"
    /\ \E typed \in SelectionReplies : \E line \in {strip(typed)} :
        /\ selected_idx' = [bound |-> TRUE, text |-> line]
        /\ UNCHANGED <<kb, lib, query, generate_checklist, checklist_response,
                       retrieved_docs, files, now,
                       asked>>
        /\ IF isdigit(line)
           THEN /\ pc' = "retry"
                /\ out' = <<>>
                /\ UNCHANGED <<response, unknown_queries>>
           ELSE \E to \in {Finish(query, response, retrieved_docs)} :
                    /\ pc' = to.pc
                    /\ response' = to.response
                    /\ unknown_queries' = to.unknown_queries
                    /\ out' = to.out

\* main, lines 133-148: generate_response is called and what it returns dealt
\* with. The first call of a query, after the documents are retrieved, is made
\* with the query; the call after a selection with the query extended by
\* " with technology index <n>", n the int of the line read. The query is
\* embedded before the first call: model.encode returns or raises
Respond ==
    /\ pc \in {"call", "retry"}
    /\ \E q \in {IF pc = "call" THEN query
                 ELSE query \o <<" ","w","i","t","h"," ","t","e","c","h","n","o","l","o","g","y"," ","i","n","d","e","x"," ">>
                      \o IntToStr(StrToInt(selected_idx.text))} :
       \E encoded \in IF pc = "call" THEN BOOLEAN ELSE {TRUE} :
       \E docs \in IF ~encoded THEN {retrieved_docs}
                   ELSE IF pc = "call" THEN Retrievals(query) ELSE {retrieved_docs} :
       \E c \in IF encoded THEN Calls(q) ELSE {Call(0, now, 0, TRUE)} :
       \E to \in {IF encoded
                   THEN Outcome(query, docs,
                                generate_response(q, docs, all_stig_recommendations,
                                                  available_stigs, generate_checklist, c),
                                pc = "call")
                   ELSE EncodeRaised} :
           /\ pc' = to.pc
           /\ response' = to.response
           /\ unknown_queries' = to.unknown_queries
           /\ out' = to.out
           /\ files' = to.files
           /\ now' = to.now
           /\ retrieved_docs' = docs
           /\ asked' = IF pc = "call" THEN asked + 1 ELSE asked
    /\ UNCHANGED <<kb, lib, query, generate_checklist, checklist_response, selected_idx>>

Next ==
    \/ Prompt
    \/ ReadQuery
    \/ AnswerChecklist
    \/ EnterSelection
    \/ Respond

Spec == Init /\ [][Next]_vars

\* ------------------------------------------------------------ properties

\* an exception raised in the function ended the program
RaisedIn(function) ==
    /\ pc = "crashed"
    /\ Len(out) = 2
    /\ out[2].tag = T.raised_in
    /\ out[2].texts[2] = function

\* a step in which generate_response is called: the first call of a query,
\* when the query was embedded, or the call after a selection
Called == pc \in {"call", "retry"} /\ ~RaisedIn(<<"r","e","t","r","i","e","v","e","_","d","o","c","u","m","e","n","t","s">>)'

\* main printed the response it holds as the answer of the query
Answer == pc = "loop" /\ out # <<>> /\ out[1].tag = T.response_to

\* generate_response returned the response main holds
Replied == pc = "select" \/ Answer

\* the query of the last call of generate_response: the query typed, or after
\* a selection of digits the query main extended
LastQuery ==
    IF selected_idx.bound /\ isdigit(selected_idx.text)
    THEN query \o <<" ","w","i","t","h"," ","t","e","c","h","n","o","l","o","g","y"," ","i","n","d","e","x"," ">> \o IntToStr(StrToInt(selected_idx.text))
    ELSE query

\* what the last call resolved the query to
Resolved == Resolve(LastQuery, all_stig_recommendations, available_stigs)

\* the response generate_response returned: main's, without the note main adds
Body(lines) ==
    IF lines # <<>> /\ lines[Len(lines)].tag = T.recorded_note
    THEN SubSeq(lines, 1, Len(lines) - 1)
    ELSE lines

\* a response that is a disambiguation request
IsRequest(lines) == \E i \in 1..Len(lines) : lines[i].tag = T.clarification_needed

\* C1: in the interactive loop, a disambiguation request of generate_response
\* makes the console prompt for a selection and call generate_response again
\* before the answer of the query is printed: a disambiguation request is
\* never printed as the answer of a query.
C1_RequestNeverTheAnswer == Answer => ~IsRequest(response)

\* C2: a reply to the selection prompt that is not a number is rejected and
\* the prompt repeated: once such a reply is read, main stays at the selection
\* prompt and prints no answer until a number is entered.
C2_NonNumericReplyRejected ==
    (selected_idx.bound /\ ~isdigit(selected_idx.text)) => (pc = "select" /\ ~Answer)

\* the candidates of a request in sorted order, none twice
Sorted(techs) == \A i, j \in 1..Len(techs) : i < j => StrLess(techs[i], techs[j])

\* the disambiguation request of the candidates of r: the two heading lines,
\* for every candidate in turn its number, technology and version and its
\* title, and the two closing lines, nothing else
RequestOf(r, lines) ==
    /\ Sorted(r.unique_techs)
    /\ Len(lines) = 4 + 2 * Len(r.unique_techs)
    /\ lines[1] = Line(T.select, 0, <<>>)
    /\ lines[2] = Line(T.multiple, 0, <<JoinComma(r.control_ids)>>)
    /\ \A k \in 1..Len(r.unique_techs) :
           \E stig \in {DictGet(r.tech_to_stig, r.unique_techs[k])} :
               /\ stig \in Range(available_stigs)
               /\ lower(get_technology_name(stig)) = r.unique_techs[k]
               /\ lines[2 * k + 1] = Line(T.tech_version, k, <<stig.technology, stig.version>>)
               /\ lines[2 * k + 2] = Line(T.stig_title, 0, <<stig.title>>)
    /\ lines[Len(lines) - 1] = Line(T.next_step, Len(r.unique_techs), <<>>)
    /\ lines[Len(lines)] = Line(T.clarification_needed, 0, <<>>)

\* an assess, audit or implement query with more than one candidate and no
\* selection index
ManyCandidates ==
    /\ Intent(LastQuery) = "guidance"
    /\ system_match(lower(LastQuery)) = <<>>
    /\ Len(Resolved.unique_techs) > 1

\* C3: generate_response never guesses a technology. For an assess, audit or
\* implement query with more than one candidate technology and no selection
\* index, the call returns only a disambiguation request: it lists exactly
\* the candidates, in sorted order, each with its technology, version and
\* title, holds no line about a control, and no checklist file is written.
C3_OnlyTheRequest ==
    [][ (Called /\ ManyCandidates)
            => /\ pc' \in {"loop", "select"}
               /\ files' = files
               /\ RequestOf(Resolved, Body(response')) ]_vars

C3_Reached ==
    /\ Replied
    /\ ManyCandidates
    /\ IsRequest(response)
    /\ Len(Resolved.control_ids) > 0

\* the technology of the k-th candidate a request displayed
Displayed(r, k) == DictGet(r.tech_to_stig, r.unique_techs[k]).technology

\* C4: the two phases of a selection agree. After a disambiguation request, the
\* call made with selection index i, 1 <= i <= N, resolves to exactly the i-th
\* technology the request displayed, and the call made with index 0 to all N
\* of them, with or without a technology hint in the query.
C4_SelectionIsTheDisplayed ==
    ( /\ selected_idx.bound /\ isdigit(selected_idx.text)
      /\ Intent(query) = "guidance"
      /\ Resolve(query, all_stig_recommendations, available_stigs).clarify )
    => \E first \in {Resolve(query, all_stig_recommendations, available_stigs)} :
       \E i \in {StrToInt(selected_idx.text)} :
           /\ i = 0 =>
                 /\ Resolved.selected.valid
                 /\ Resolved.selected.techs =
                        [k \in 1..Len(first.unique_techs) |-> Displayed(first, k)]
           /\ (1 <= i /\ i <= Len(first.unique_techs)) =>
                 /\ Resolved.selected.valid
                 /\ Resolved.selected.techs = <<Displayed(first, i)>>

\* C5: with N >= 1 candidates, a selection index greater than N is reported as
\* an invalid selection and resolves to no technology, for N = 1 as for any N.
C5_IndexOutOfRangeIsInvalid ==
    ( /\ Answer
      /\ Intent(LastQuery) = "guidance"
      /\ Resolved.selected_idx # <<>>
      /\ Len(Resolved.unique_techs) >= 1
      /\ Resolved.selected_idx[1] > Len(Resolved.unique_techs) )
    => Body(response) = << Line(T.invalid_selection, 0, <<>>) >>

\* the loaded technologies by name, the lowercased get_technology_name of the
\* entries of available_stigs
LoadedNames == {lower(get_technology_name(s)) : s \in Range(available_stigs)}

\* hinted: the loaded technologies whose name contains the hint
HintedNames(hint) == {t \in LoadedNames : In(lower(hint), lower(t))}

\* applicable: the loaded technologies with a rule for one of the controls
ApplicableNames(control_ids) ==
    {t \in LoadedNames :
        \E s \in Range(available_stigs), c \in Range(control_ids) :
            /\ lower(get_technology_name(s)) = t
            /\ RecsOf(all_stig_recommendations, s.technology, c) # <<>>}

\* C6: the candidate technologies of an assess, audit or implement query are
\* hinted \cap applicable when that is not empty, else hinted when that is not
\* empty, else applicable; with no hint they are exactly applicable.
C6_CandidatesFormula ==
    (Replied /\ Intent(LastQuery) = "guidance")
    => \E hinted \in {HintedNames(Resolved.tech_hint)} :
       \E applicable \in {ApplicableNames(Resolved.control_ids)} :
           /\ Len(Resolved.unique_techs) = Cardinality(Range(Resolved.unique_techs))
           /\ Range(Resolved.unique_techs) =
                  IF Resolved.tech_hint = <<>> THEN applicable
                  ELSE IF hinted \cap applicable # {} THEN hinted \cap applicable
                  ELSE IF hinted # {} THEN hinted
                  ELSE applicable

C6_Reached ==
    /\ Answer
    /\ Intent(LastQuery) = "guidance"
    /\ Resolved.tech_hint # <<>>
    /\ \E hinted \in {HintedNames(Resolved.tech_hint)} :
       \E applicable \in {ApplicableNames(Resolved.control_ids)} :
           /\ hinted \cap applicable # {}
           /\ hinted \cap applicable # hinted
           /\ Range(Resolved.unique_techs) = hinted \cap applicable

\* C7: the applicable set of generate_response holds every loaded STIG, every
\* entry of available_stigs, whose file has a rule for one of the controls of
\* the query, and nothing else: whatever the titles, no two STIGs are merged
\* into one candidate and none is lost.
C7_ApplicableIsEveryStig ==
    (Replied /\ Intent(LastQuery) = "guidance")
    => \A k \in 1..Len(stig_folder) :
           (\E c \in Range(Resolved.control_ids) :
                c \in DOMAIN parse_stig_xccdf(stig_folder[k]).recommendations)
           <=> (\E t \in Range(Resolved.applicable_techs) :
                    DictGet(Resolved.tech_to_stig, t).file = stig_folder[k].file)

\* the lines of a response that belong to a STIG section
StigTags ==
    {T.stig_checks, T.stig_guidance, T.rule, T.verify, T.severity, T.apply,
     T.no_stig_checks, T.no_stig_guidance}

\* the answer of a control of the catalog: its title, its purpose and the
\* heading of its steps
ControlAnswered(lines, control_id) ==
    \E i \in 1..(Len(lines) - 3) :
        /\ lines[i] = Line(T.control_title, 0,
                           <<control_id, control_details[control_id].title>>)
        /\ lines[i + 1].tag = T.purpose
        /\ lines[i + 3].tag \in {T.steps_to_assess, T.how_to_implement}
        /\ lines[i + 4].tag \in {T.step, T.follow}

\* an assess, audit or implement query with no candidate
NoCandidate == Intent(LastQuery) = "guidance" /\ Resolved.unique_techs = <<>>

DocControl(doc) == Before(After(doc, <<","," ">>), <<":">>)

\* the control of the block line i of a response belongs to
BlockControl(lines, i) ==
    lines[CHOOSE j \in 1..i :
              /\ lines[j].tag \in {T.control_title, T.control}
              /\ \A k \in (j + 1)..i : lines[k].tag \notin {T.control_title, T.control}].texts[1]

\* C9: free text is attributed to a control by the equality of identifiers
\* only: the steps or guidance an assess or implement response gives for a
\* control X never hold the text of a retrieved document tagged for another
\* control Y, not even when X is a prefix of Y (AC-1 and AC-17).
C9_SnippetsOfTheControlOnly ==
    (Answer /\ Intent(LastQuery) = "guidance")
    => \A i \in 1..Len(response) : \A d \in Range(retrieved_docs) :
           (response[i].tag = T.step /\ response[i].texts = <<After(d, <<":"," ">>)>>)
           => DocControl(d) = BlockControl(response, i)

\* a CCI-<digits> token at position i of a text
CciTokenAt(s, i) ==
    /\ i + 4 <= Len(s)
    /\ lower(SubSeq(s, i, i + 3)) = <<"c","c","i","-">>
    /\ IsDigit(s[i + 4])

\* a query with a CCI-<digits> token and without the phrase 'list stigs'
CciQuery(q) ==
    /\ \E i \in 1..Len(q) : CciTokenAt(q, i)
    /\ ~In(<<"l","i","s","t"," ","s","t","i","g","s">>, lower(q))

\* C10: a query with a CCI-<digits> token and no 'list stigs' phrase is
\* answered as a CCI lookup, before the control summary, the generic lookup
\* and the unrecognized path, though it holds no two-letter control id; "What
\* is CCI-000130?" is such a query.
C10_CciLookupFirst ==
    [][ (Called /\ CciQuery(LastQuery))
            => /\ pc' = "loop"
               /\ Len(response') >= 2
               /\ response'[1] = Line(T.cci_lookup, 0, <<>>)
               /\ response'[2].tag = T.cci_maps
               /\ \E i \in 1..Len(LastQuery) :
                      /\ CciTokenAt(LastQuery, i)
                      /\ \A j \in 1..(i - 1) : ~CciTokenAt(LastQuery, j)
                      /\ response'[2].texts[1] =
                             upper(SubSeq(LastQuery, i, RunEnd(LastQuery, i + 4, IsDigit))) ]_vars

C10_Reached ==
    /\ Answer
    /\ query = Typed.cci
    /\ extract_control_ids(query) = <<>>
    /\ response[1] = Line(T.cci_lookup, 0, <<>>)
    /\ response[2] = Line(T.cci_maps, 0, <<<<"C","C","I","-","0","0","0","1","3","0">>, <<"A","U","-","3">>>>)

\* a query with the phrase 'list stigs'
ListStigsQuery(q) == In(<<"l","i","s","t"," ","s","t","i","g","s">>, lower(q))

\* C11: a query containing 'list stigs' is always answered as a STIG listing,
\* whatever else it contains (a CCI-<digits> token, a 'what is <control>?'
\* phrase, 'cci mappings for' or a control-id-like substring): the response
\* starts with the heading of the listing or is the 'No STIGs found' line.
C11_ListStigsFirst ==
    [][ (Called /\ ListStigsQuery(LastQuery))
            => /\ response' # <<>>
               /\ response'[1].tag \in {T.available_stigs, T.no_stigs_found} ]_vars

\* C12: every control id generate_response extracts from a query is the
\* normalized form of the matched token (leading zeros of the number
\* stripped, a parenthetical enhancement kept): on the assess, implement and
\* generic paths the extracted ids, and the ids the response is headed with,
\* are what normalize_control_id makes of them, so 'AC-01' is processed as
\* 'AC-1'.
C12_ExtractedIdsNormalized ==
    (Answer /\ Intent(LastQuery) \in {"guidance", "generic"})
    => /\ \A k \in 1..Len(Resolved.control_ids) :
              Resolved.control_ids[k] = normalize_control_id(Resolved.control_ids[k])
       /\ \A i \in 1..Len(response) :
              response[i].tag \in {T.control, T.control_title}
              => response[i].texts[1] = normalize_control_id(response[i].texts[1])

\* ------------------------------------------- normalize_control_id on its own

\* the most calls of normalize_control_id made in a row, each on the result of
\* the one before
MaxNormalize == 2

\* the strings normalize_control_id is called with: a family, "-", a number
\* and an enhancement, well formed or not, with or without a newline at the end
ControlIdInputs ==
    { family \o <<"-">> \o number \o enhancement \o ending :
          family \in {<<"A","C">>, <<"C","M">>, <<"a","c">>, <<"A">>},
          number \in {<<>>, <<"0">>, <<"0","0">>, <<"1">>, <<"0","1">>, <<"0","7">>, <<"0","0","7">>, <<"1","0">>, <<"0","1","0">>},
          enhancement \in {<<>>, <<"(","5",")">>, <<"(","0","5",")">>, <<"(","a",")">>, <<"(","A",")">>, <<"(",")">>, <<" ","(","5",")">>, <<"(","5">>, <<"x">>},
          ending \in {<<>>, <<"\n">>} }

\* no session of main: the knowledge base of an empty STIG folder, nothing typed
NoSession ==
    /\ stig_folder = <<>>
    /\ \E loaded \in {load_stig_data(stig_folder)} :
           /\ available_stigs = loaded.available_stigs
           /\ all_stig_recommendations = loaded.all_stig_recommendations
    /\ nlp = CHOOSE m \in NlpModels : TRUE
    /\ pc = "loop"
    /\ query = <<>>
    /\ generate_checklist = FALSE
    /\ checklist_response = Unbound
    /\ retrieved_docs = <<>>
    /\ response = <<>>
    /\ selected_idx = Unbound
    /\ out = <<>>
    /\ files = <<>>
    /\ now = 0
    /\ unknown_queries = <<>>
    /\ asked = 0

NormalizeInit ==
    /\ NoSession
    /\ given_id \in ControlIdInputs
    /\ normalized = <<>>
    /\ exported = <<>>
    /\ index_files = <<>>
    /\ built = <<>>
    /\ retrieved = <<>>

\* normalize_control_id(control_id), then normalize_control_id of the result
Normalize ==
    /\ Len(normalized) < MaxNormalize
    /\ normalized' = Append(normalized,
                            normalize_control_id(IF normalized = <<>> THEN given_id
                                                 ELSE normalized[Len(normalized)]))
    /\ UNCHANGED <<kb, session, given_id, exported, index_files, built, retrieved>>

NormalizeNext == Normalize

NormalizeSpec == NormalizeInit /\ [][NormalizeNext]_vars

\* ^([A-Z]{2})-0*([0-9]+)(?:\(([a-z0-9]+)\))?$ matches s
IsControlId(s) ==
    \E d \in 4..Len(s) : \E e \in d..Len(s) :
        /\ IsUpper(s[1]) /\ IsUpper(s[2]) /\ s[3] = "-"
        /\ \A k \in 4..d : IsDigit(s[k])
        /\ \/ e = d
           \/ /\ e >= d + 3
              /\ s[d + 1] = "(" /\ s[e] = ")"
              /\ \A k \in (d + 2)..(e - 1) : IsLower(s[k]) \/ IsDigit(s[k])
        /\ \/ e = Len(s)
           \/ e = Len(s) - 1 /\ s[Len(s)] = "\n"

\* C13: normalize_control_id is idempotent, normalize(normalize(s)) =
\* normalize(s) for every string s; normalize('AC-01') = 'AC-1' and
\* normalize('CM-07(5)') = 'CM-7(5)'; a number of zeros only keeps one zero;
\* a string that does not match the control-id pattern is returned unchanged.
C13_NormalizeIdempotent ==
    /\ Len(normalized) >= 2 => normalized[2] = normalized[1]
    /\ (normalized # <<>> /\ given_id = <<"A","C","-","0","1">>) => normalized[1] = <<"A","C","-","1">>
    /\ (normalized # <<>> /\ given_id = <<"C","M","-","0","7","(","5",")">>) => normalized[1] = <<"C","M","-","7","(","5",")">>
    /\ (normalized # <<>> /\ given_id = <<"A","C","-","0","0">>) => normalized[1] = <<"A","C","-","0">>
    /\ (normalized # <<>> /\ ~IsControlId(given_id)) => normalized[1] = given_id

C13_Reached ==
    /\ given_id = <<"C","M","-","0","0","7","(","5",")">>
    /\ normalized = <<<<"C","M","-","7","(","5",")">>, <<"C","M","-","7","(","5",")">>>>

\* the knowledge base of the scenario: control AU-2 'Event Logging' and the one
\* technology 'Windows 10', with the one rule WN10-AU-000010 for AU-2
Au2OnWindows10 ==
    /\ control_details[<<"A","U","-","2">>].title = <<"E","v","e","n","t"," ","L","o","g","g","i","n","g">>
    /\ Len(available_stigs) = 1
    /\ available_stigs[1].technology = <<"W","i","n","d","o","w","s"," ","1","0">>
    /\ DOMAIN all_stig_recommendations = {<<"W","i","n","d","o","w","s"," ","1","0">>}
    /\ <<"A","U","-","2">> \in DOMAIN all_stig_recommendations[<<"W","i","n","d","o","w","s"," ","1","0">>]
    /\ Len(all_stig_recommendations[<<"W","i","n","d","o","w","s"," ","1","0">>][<<"A","U","-","2">>]) = 1
    /\ all_stig_recommendations[<<"W","i","n","d","o","w","s"," ","1","0">>][<<"A","U","-","2">>][1].rule_id = <<"W","N","1","0","-","A","U","-","0","0","0","0","1","0">>
    /\ capitalize(all_stig_recommendations[<<"W","i","n","d","o","w","s"," ","1","0">>][<<"A","U","-","2">>][1].severity) = <<"H","i","g","h">>

\* a text of a line of the response holds the string
Shows(lines, text) ==
    \E i \in 1..Len(lines) : \E k \in 1..Len(lines[i].texts) : In(text, lines[i].texts[k])

\* C14: with control AU-2 ('Event Logging') and the one technology 'Windows
\* 10' holding one rule for AU-2 (WN10-AU-000010, severity 'High'), the query
\* 'How should AU-2 be implemented on Windows 10?' is an implement query for
\* ['AU-2'] with the hint 'windows 10', resolves to exactly {Windows 10}
\* without a disambiguation request, and the response contains the control
\* title, the rule id and the severity 'High'.
C14_Au2OnWindows10 ==
    (Replied /\ Au2OnWindows10 /\ query = Typed.how_au2)
    => /\ Intent(query) = "guidance"
       /\ In(<<"i","m","p","l","e","m","e","n","t">>, lower(query))
       /\ Resolved.control_ids = <<<<"A","U","-","2">>>>
       /\ Resolved.tech_hint = <<"w","i","n","d","o","w","s"," ","1","0">>
       /\ ~Resolved.clarify
       /\ Resolved.selected = [valid |-> TRUE, techs |-> <<<<"W","i","n","d","o","w","s"," ","1","0">>>>]
       /\ Answer
       /\ Shows(response, <<"E","v","e","n","t"," ","L","o","g","g","i","n","g">>)
       /\ Shows(response, <<"W","N","1","0","-","A","U","-","0","0","0","0","1","0">>)
       /\ Shows(response, <<"H","i","g","h">>)

\* ------------------------------------------------ save_checklist on its own

\* the most steps, the most technologies and the most rules of a technology
\* save_checklist is called with, and the most calls made
MaxSteps == 3

MaxTechs == 2

MaxRules == 2

MaxExports == 1

\* the steps save_checklist is called with
StepInputs ==
    UNION { [1..n -> {<<"E","x","a","m","i","n","e"," ","p","o","l","i","c","y">>, <<"T","o"," ","a","s","s","e","s","s"," ","t","h","i","s"," ","c","o","n","t","r","o","l",","," ","v","e","r","i","f","y"," ","r","o","l","e","s",".">>}]
            : n \in 0..MaxSteps }

\* the rules: the fix of the last has a line that is one digit
RuleInputs ==
    { [rule_id |-> <<"W","N","1","0","-","1">>, title |-> <<"L","i","m","i","t"," ","a","c","c","e","s","s">>,
       fix |-> <<"C","o","n","f","i","g","u","r","e"," ","t","h","e"," ","p","o","l","i","c","y",".">>, severity |-> <<"h","i","g","h">>],
      [rule_id |-> <<"W","N","1","0","-","2">>, title |-> <<"A","u","d","i","t"," ","l","o","g","o","n","s">>,
       fix |-> <<"1","."," ","O","p","e","n"," ","t","h","e"," ","e","d","i","t","o","r",".">> \o <<"\n">> \o <<"2","."," ","E","n","a","b","l","e"," ","a","u","d","i","t","i","n","g",".">>, severity |-> <<"l","o","w">>],
      [rule_id |-> <<"W","N","1","0","-","3">>, title |-> <<"L","o","c","k"," ","t","h","e"," ","s","c","r","e","e","n">>,
       fix |-> <<"S","e","t"," ","t","h","e"," ","v","a","l","u","e"," ","t","o">> \o <<"\n">> \o <<"1">>, severity |-> <<"m","e","d","i","u","m">>] }

\* stig_recommendations: technologies in insertion order, each with the rules
\* of the control
RecInputs ==
    LET Lists == UNION { [1..n -> RuleInputs] : n \in 1..MaxRules }
        Techs == { t \in UNION { [1..n -> {<<"W","i","n","d","o","w","s"," ","1","0">>, <<"R","e","d"," ","H","a","t"," ","9">>}] : n \in 0..MaxTechs } :
                       \A i, j \in 1..Len(t) : i # j => t[i] # t[j] }
    IN  UNION { { [i \in 1..Len(t) |-> [key |-> t[i], val |-> l[i]]] : l \in [1..Len(t) -> Lists] }
                : t \in Techs }

ExportInit ==
    /\ NoSession
    /\ given_id = <<>>
    /\ normalized = <<>>
    /\ exported = <<>>
    /\ index_files = <<>>
    /\ built = <<>>
    /\ retrieved = <<>>

\* save_checklist(control_id, steps, stig_recommendations) at a reading of the
\* clock, the checklist folder writable or not
SaveChecklist ==
    /\ Len(exported) < MaxExports
    /\ \E steps \in StepInputs : \E stig_recommendations \in RecInputs :
       \E stamp \in {t \in {now, now + 1} : t <= MaxTime} : \E writable \in BOOLEAN :
       \E file \in {save_checklist(<<"A","C","-","1">>, steps, stig_recommendations, stamp, writable)} :
           /\ exported' = Append(exported, [steps |-> steps,
                                            stig_recommendations |-> stig_recommendations,
                                            file |-> file])
           /\ files' = IF file.written THEN Written(files, <<file>>) ELSE files
           /\ now' = stamp
    /\ UNCHANGED <<kb, pc, query, generate_checklist, checklist_response,
                   retrieved_docs, response,
                   selected_idx, out, unknown_queries, asked, given_id, normalized,
                   index_files, built, retrieved>>

ExportNext == SaveChecklist

ExportSpec == ExportInit /\ [][ExportNext]_vars

\* the rules of a technology-rule map, in total
RECURSIVE RuleCount(_)
RuleCount(stig_recommendations) ==
    IF stig_recommendations = <<>> THEN 0
    ELSE Len(stig_recommendations[1].val) + RuleCount(Tail(stig_recommendations))

\* C15: save_checklist called with n steps and a technology-rule map of m
\* rules in total writes exactly n + m record rows after the header row, one
\* for every step and one for every rule, each with the status 'Pending'; 3
\* steps and 2 rules of one technology give 5 rows.
C15_RowForEveryStepAndRule ==
    \A k \in 1..Len(exported) :
        exported[k].file.written
        => /\ DictHas(files, <<exported[k].file.control_id, exported[k].file.stamp>>)
           /\ \E rows \in {DictGet(files, <<exported[k].file.control_id, exported[k].file.stamp>>)} :
                  /\ Len(rows) = Len(exported[k].steps) + RuleCount(exported[k].stig_recommendations)
                  /\ \A i \in 1..Len(rows) : rows[i].status = <<"P","e","n","d","i","n","g">>
                  /\ \A i \in 1..Len(exported[k].steps) : rows[i].source = <<"N","I","S","T"," ","8","0","0","-","5","3">>
                  /\ \A i \in (Len(exported[k].steps) + 1)..Len(rows) :
                         SubSeq(rows[i].source, 1, 5) = <<"S","T","I","G"," ">>

\* the lines of a response that report a saved checklist
SavedLines(lines) == {i \in 1..Len(lines) : lines[i].tag = T.checklist_saved}

\* C16: save_checklist never overwrites or truncates an existing checklist
\* file and always creates a new one: every invocation a response reports,
\* two for the same control included, adds a file of its own, and no file
\* there was is changed.
C16_ExportNeverOverwrites ==
    [][ (Called /\ pc' # "crashed")
            => /\ Len(files') = Len(files) + Cardinality(SavedLines(Body(response')))
               /\ \A i \in 1..Len(files) : files'[i] = files[i] ]_vars

\* C17: a failure to write the checklist file, during a query with
\* generate_checklist set, is reported to the user, the answer computed for
\* the query is still shown and the loop goes on to the next prompt: the step
\* that calls generate_response for such a query never ends the program with
\* the exception of save_checklist, it prints the answer (or the request for a
\* selection) and main is back in its loop.
C17_WriteFailureIsReported ==
    [][ (Called /\ generate_checklist)
            => /\ ~RaisedIn(<<"s","a","v","e","_","c","h","e","c","k","l","i","s","t">>)'
               /\ pc' \in {"loop", "select"}
               /\ pc' = "loop" => (out' # <<>> /\ out'[1].tag = T.response_to) ]_vars

\* C18: a failure of the embedding function while retrieve_documents embeds
\* the query is reported for that query and the loop goes on to prompt for
\* the next one: the step that embeds the query never ends the program with
\* the exception raised in retrieve_documents; only 'exit' ends the program.
C18_EmbeddingFailureIsReported ==
    [][ pc = "call"
            => /\ ~RaisedIn(<<"r","e","t","r","i","e","v","e","_","d","o","c","u","m","e","n","t","s">>)'
               /\ pc' = "crashed" => RaisedIn(<<"s","a","v","e","_","c","h","e","c","k","l","i","s","t">>)' ]_vars

\* ------------------------------------------- build_vector_store on its own

\* the most calls of build_vector_store, each the startup of a run of main
MaxBuilds == 2

\* the SentenceTransformer models main can be started with (--model)
ModelNames == {<<"a","l","l","-","m","p","n","e","t","-","b","a","s","e","-","v","2">>, <<"a","l","l","-","M","i","n","i","L","M","-","L","6","-","v","2">>}

\* hashlib.md5(model_name.encode()).hexdigest()
md5_hexdigest(model_name) ==
    IF model_name = <<"a","l","l","-","m","p","n","e","t","-","b","a","s","e","-","v","2">> THEN <<"9","b","7","7","7","a","f","e","b","6","1","a","4","a","2","c","7","4","3","3","9","2","a","f","6","e","a","d","3","0","0","0">>
    ELSE <<"6","1","3","6","5","3","6","1","8","2","0","e","9","b","9","2","d","b","8","6","e","6","3","e","e","4","f","d","d","6","7","0">>

\* one file for every model name, whatever the model
index_file_fixed(model_name) == <<"k","n","o","w","l","e","d","g","e","/","f","a","i","s","s","_","i","n","d","e","x",".","p","k","l">>

\* build_vector_store: index_file, in the knowledge folder
index_file(model_name) == <<"k","n","o","w","l","e","d","g","e","/","f","a","i","s","s","_","i","n","d","e","x","_">> \o md5_hexdigest(model_name) \o <<".","p","k","l">>

\* embeddings.shape[1]: the output dimension of the model
dimension_of(model_name) == IF model_name = <<"a","l","l","-","m","p","n","e","t","-","b","a","s","e","-","v","2">> THEN 768 ELSE 384

\* model.encode(documents) added to faiss.IndexFlatL2(dimension): an index of
\* the model's dimension, with the vector of every document
new_index(documents, model_name) ==
    [dimension |-> dimension_of(model_name),
     vectors |-> [i \in 1..Len(documents) |-> <<model_name, documents[i]>>]]

\* the documents main builds the store from
DocumentInputs == {all_documents, <<all_documents[1]>>}

\* what a file of the knowledge folder holds: pickle.dump((index, doc_list)),
\* or bytes pickle.load cannot read
Pickled(index, doc_list) == [loads |-> TRUE, index |-> index, doc_list |-> doc_list]

Corrupt == [loads |-> FALSE, index |-> [dimension |-> 0, vectors |-> <<>>], doc_list |-> <<>>]

\* the knowledge folder before the first call: an index file of a model is
\* missing, unreadable, or the pickle of an index some run left there, of any
\* of the dimensions
KnowledgeDirs ==
    LET Contents == {Corrupt} \cup {Pickled(new_index(d, m), d) :
                                       d \in DocumentInputs, m \in ModelNames}
    IN  UNION { [{index_file(m) : m \in named} -> Contents] : named \in SUBSET ModelNames }

\* build_vector_store(documents, model_name, knowledge_dir): the file of the
\* model name is loaded when it exists (pickle.load raises on an unreadable
\* file), else the documents are embedded and the index is written to it
build_vector_store(documents, model_name, dir) ==
    LET Loaded(file) ==
            IF file.loads
            THEN [outcome |-> "loaded", index |-> file.index, doc_list |-> file.doc_list,
                  index_files |-> dir]
            ELSE [outcome |-> "raised", index |-> Corrupt.index, doc_list |-> <<>>,
                  index_files |-> dir]
        Built(name, index) ==
            [outcome |-> "built", index |-> index, doc_list |-> documents,
             index_files |-> (name :> Pickled(index, documents)) @@ dir]
        At(name) ==
            IF name \in DOMAIN dir THEN Loaded(dir[name])
            ELSE Built(name, new_index(documents, model_name))
    IN  At(index_file(model_name))

StoreInit ==
    /\ NoSession
    /\ given_id = <<>>
    /\ normalized = <<>>
    /\ exported = <<>>
    /\ index_files \in KnowledgeDirs
    /\ built = <<>>
    /\ retrieved = <<>>

\* main, line 80: a run of main builds or loads its vector store
BuildVectorStore ==
    /\ Len(built) < MaxBuilds
    /\ \E documents \in DocumentInputs : \E model_name \in ModelNames :
       \E r \in {build_vector_store(documents, model_name, index_files)} :
           /\ index_files' = r.index_files
           /\ built' = Append(built, [model_name |-> model_name, documents |-> documents,
                                      outcome |-> r.outcome, index |-> r.index,
                                      doc_list |-> r.doc_list])
    /\ UNCHANGED <<kb, session, given_id, normalized, exported, retrieved>>

StoreNext == BuildVectorStore

StoreSpec == StoreInit /\ [][StoreNext]_vars

\* the file name of a model, as the source computes it
IndexFileOf(model_name) ==
    <<"k","n","o","w","l","e","d","g","e","/","f","a","i","s","s","_","i","n","d","e","x","_">>
        \o (IF model_name = <<"a","l","l","-","m","p","n","e","t","-","b","a","s","e","-","v","2">> THEN <<"9","b","7","7","7","a","f","e","b","6","1","a","4","a","2","c","7","4","3","3","9","2","a","f","6","e","a","d","3","0","0","0">>
            ELSE <<"6","1","3","6","5","3","6","1","8","2","0","e","9","b","9","2","d","b","8","6","e","6","3","e","e","4","f","d","d","6","7","0">>)
        \o <<".","p","k","l">>

\* C19: when the persisted index file exists but fails to deserialize, or its
\* vector dimension differs from the output dimension of the live model,
\* build_vector_store discards it and rebuilds the index from the given
\* documents; no call fails because of a bad cache file.
C19_BadCacheIsRebuilt ==
    [][ Len(built') > Len(built)
            => \E call \in {built'[Len(built')]} : \E name \in {IndexFileOf(call.model_name)} :
                   /\ call.outcome # "raised"
                   /\ (/\ name \in DOMAIN index_files
                       /\ \/ ~index_files[name].loads
                          \/ index_files[name].index.dimension # dimension_of(call.model_name))
                      => /\ call.outcome = "built"
                         /\ call.index = new_index(call.documents, call.model_name)
                         /\ call.doc_list = call.documents
                         /\ index_files'[name] = Pickled(call.index, call.doc_list) ]_vars

\* the calls so far that embedded their documents
Embedded(calls) == {k \in 1..Len(calls) : calls[k].outcome = "built"}

\* C20: the model identity decides the validity of the cache. A call with the
\* model name and the documents of an earlier call that embedded them embeds
\* nothing and returns the persisted (index, doc_list); a call with a model
\* name for which no index was persisted embeds the documents and persists
\* the new index in a file of its own, the files there were left as they are.
C20_CacheKeyedByModel ==
    [][ Len(built') > Len(built)
            => \E call \in {built'[Len(built')]} :
                   /\ \A k \in Embedded(built) :
                          (built[k].model_name = call.model_name
                               /\ built[k].documents = call.documents)
                          => /\ call.outcome = "loaded"
                             /\ call.index = built[k].index
                             /\ call.doc_list = built[k].doc_list
                             /\ index_files' = index_files
                   /\ (/\ Cardinality(DOMAIN index_files) = Cardinality(Embedded(built))
                       /\ \A k \in Embedded(built) : built[k].model_name # call.model_name)
                      => /\ call.outcome = "built"
                         /\ call.index = new_index(call.documents, call.model_name)
                         /\ call.doc_list = call.documents
                         /\ DOMAIN index_files' =
                                DOMAIN index_files \cup {IndexFileOf(call.model_name)}
                         /\ IndexFileOf(call.model_name) \notin DOMAIN index_files
                         /\ \A name \in DOMAIN index_files :
                                index_files'[name] = index_files[name] ]_vars

C20_Reached ==
    /\ Len(built) = 2
    /\ built[1].outcome = "built"
    /\ built[2].outcome = "loaded"
    /\ built[2].model_name = built[1].model_name
    /\ built[2].documents = built[1].documents
    /\ built[2].index = new_index(built[1].documents, built[1].model_name)

\* a line was read at the question prompt: main is past input() with the
\* stripped line in query
LineRead == pc = "input" /\ pc' # "input"

\* the line read ends the pass without a call of retrieve_documents or
\* generate_response: main is back at the top of the loop or has left it
NotProcessed ==
    /\ pc' \in {"loop", "exited"}
    /\ UNCHANGED <<retrieved_docs, response, files, asked, unknown_queries>>

\* exit, help and the empty line, in any letter case, do what main gives them
ExitHelpEmpty ==
    /\ lower(query') = <<"e","x","i","t">> => pc' = "exited" /\ NotProcessed
    /\ lower(query') = <<"h","e","l","p">>
          => /\ pc' = "loop" /\ NotProcessed
             /\ out'[1].tag = T.examples /\ Len(out') = 8
    /\ query' = <<>>
          => /\ pc' = "loop" /\ NotProcessed
             /\ out' = << Line(T.please_enter, 0, <<>>) >>

StigKeyword(q) ==
    IF Len(q) > 15 /\ lower(SubSeq(q, 1, 15)) = <<"l","i","s","t"," ","s","t","i","g","s"," ","f","o","r"," ">>
    THEN strip(lower(SubSeq(q, 16, Len(q))))
    ELSE <<>>

\* no loaded STIG has the keyword in its technology or its title
NoStigMatches(keyword) ==
    \A i \in 1..Len(available_stigs) :
        /\ ~In(keyword, lower(available_stigs[i].technology))
        /\ ~In(keyword, lower(available_stigs[i].title))

\* C22: a 'list stigs for <keyword>' query whose keyword matches no loaded
\* STIG's technology or title is answered by the 'No STIGs found for <keyword>'
\* message and raises nothing, whatever STIGs are loaded, none included.
C22_NoStigsFoundForKeyword ==
    [][ (Called /\ StigKeyword(LastQuery) # <<>> /\ NoStigMatches(StigKeyword(LastQuery)))
            => /\ pc' # "crashed"
               /\ Body(response') = << Line(T.no_stigs_found, 0,
                                            << <<" ","f","o","r"," ">> \o StigKeyword(LastQuery) >>) >> ]_vars

\* the lines of the section of the control whose 'Checklist Saved' line is
\* lines[i]: from the heading of the control to that line
SectionOf(lines, i) ==
    LET heads == {j \in 1..i : lines[j].tag = T.control_title}
        first == CHOOSE j \in heads : \A k \in heads : k <= j
    IN  SubSeq(lines, first, i)

\* the steps a section renders under 'Steps to Assess', without the line that
\* asks to confirm the parameters, and the ids of the rules it renders
RenderedSteps(section) ==
    LET shown == FilterSeq(section, {l \in Range(section) : l.tag = T.step})
    IN  [k \in 1..Len(shown) |-> shown[k].texts[1]]

RenderedRules(section) ==
    LET shown == FilterSeq(section, {l \in Range(section) : l.tag = T.rule})
    IN  [k \in 1..Len(shown) |-> shown[k].texts[2]]

\* the step rows and the STIG rows of a checklist file
StepRows(rows) == FilterSeq(rows, {r \in Range(rows) : r.source = <<"N","I","S","T"," ","8","0","0","-","5","3">>})

StigRows(rows) == FilterSeq(rows, {r \in Range(rows) : r.source # <<"N","I","S","T"," ","8","0","0","-","5","3">>})

\* C23: whenever generate_response writes a checklist for a control, the step
\* rows of the file are the steps the same response renders under 'Steps to
\* Assess' for that control, as many and in that order, and its STIG rows are
\* the rules the response renders for the selected technologies.
C23_ExportedIsRendered ==
    [][ (Called /\ pc' # "crashed")
          => \A i \in SavedLines(Body(response')) :
                LET lines == Body(response')
                    key == <<lines[i].texts[1], lines[i].n>>
                    section == SectionOf(lines, i)
                IN  /\ DictHas(files', key)
                    /\ [k \in 1..Len(StepRows(DictGet(files', key))) |->
                           StepRows(DictGet(files', key))[k].task]
                       = [k \in 1..Len(RenderedSteps(section)) |->
                             nist_task(RenderedSteps(section)[k])]
                    /\ [k \in 1..Len(StigRows(DictGet(files', key))) |->
                           StigRows(DictGet(files', key))[k].id]
                       = RenderedRules(section) ]_vars

\* ------------------------------------ build_vector_store, a run interrupted

\* build_vector_store, lines 42-43: a run is interrupted between open(index_file,
\* 'wb') and the end of pickle.dump. The file is the one open created, with the
\* bytes written so far: a prefix of a pickle, which pickle.load cannot read
Interrupted ==
    /\ Len(built) < MaxBuilds
    /\ \E documents \in DocumentInputs : \E model_name \in ModelNames :
       \E name \in {index_file(model_name)} :
           /\ name \notin DOMAIN index_files
           /\ index_files' = (name :> Corrupt) @@ index_files
           /\ built' = Append(built, [model_name |-> model_name, documents |-> documents,
                                      outcome |-> "interrupted", index |-> Corrupt.index,
                                      doc_list |-> <<>>])
    /\ UNCHANGED <<kb, session, given_id, normalized, exported, retrieved>>

InterruptNext == BuildVectorStore \/ Interrupted

InterruptSpec == StoreInit /\ [][InterruptNext]_vars

\* C24: persisting the index is atomic with respect to interruption. After a
\* run that found no index file for its model, interrupted while it wrote the
\* file or not, there is no index file for that model or a complete one, and no
\* later run loads a partially written file as a valid cache.
C24_IndexWrittenAtomically ==
    [][ Len(built') > Len(built)
            => \E call \in {built'[Len(built')]} : \E name \in {IndexFileOf(call.model_name)} :
                   /\ name \notin DOMAIN index_files
                         => (name \notin DOMAIN index_files' \/ index_files'[name].loads)
                   /\ (name \in DOMAIN index_files /\ ~index_files[name].loads)
                         => call.outcome # "loaded" ]_vars

\* the lines of the block of the control whose heading is lines[i]: up to the
\* heading of the next control
BlockOf(lines, i) ==
    LET later == {j \in (i + 1)..Len(lines) : lines[j].tag \in {T.control_title, T.control}}
        last == IF later = {} THEN Len(lines)
                ELSE (CHOOSE j \in later : \A k \in later : j <= k) - 1
    IN  SubSeq(lines, i, last)

\* the retrieved Assessment snippets of a control: the text after ": " of the
\* retrieved Assessment documents tagged with the id of the control
SnippetsOf(docs, id) ==
    LET own == FilterSeq(docs, {d \in Range(docs) :
                                   In(<<"A","s","s","e","s","s","m","e","n","t",","," ">>, d) /\ DocControl(d) = id})
    IN  [k \in 1..Len(own) |-> After(own[k], <<":"," ">>)]

\* C25: in the answer of an assess query, the steps rendered for a control of
\* the catalog are its assessment-procedure entry in the stored order if it
\* has one, otherwise the retrieved Assessment snippets of that control if
\* there are any, otherwise the actionable steps extracted from its
\* description.
C25_FirstNonEmptySource ==
    (Answer /\ response[1].tag = T.assessing)
    => \A i \in 1..Len(response) :
          response[i].tag = T.control_title
          => LET id == response[i].texts[1]
                 steps == RenderedSteps(BlockOf(response, i))
             IN  IF id \in DOMAIN assessment_procedures
                 THEN steps = assessment_procedures[id]
                 ELSE IF SnippetsOf(retrieved_docs, id) # <<>>
                 THEN steps = SnippetsOf(retrieved_docs, id)
                 ELSE steps = extract_actionable_steps(control_details[id].description, nlp)

\* the user answered y at the checklist prompt of the query main holds
AnsweredYes == checklist_response = [bound |-> TRUE, text |-> <<"y">>]

\* C26: a checklist file is created only on explicit user request. The files
\* of assessment_checklists change only in a call of generate_response for a
\* query at whose checklist prompt the user answered y; a query answered n, a
\* query without 'assess' and 'audit', for which no prompt is shown, and a call
\* with generate_checklist false create and change no file.
C26_ChecklistOnlyOnRequest ==
    [][ /\ files' # files
            => /\ Called /\ generate_checklist /\ AnsweredYes
               /\ In(<<"a","s","s","e","s","s">>, lower(query)) \/ In(<<"a","u","d","i","t">>, lower(query))
        /\ (pc \in {"call", "retry"} /\ ~generate_checklist) => files' = files
        /\ (pc \in {"call", "retry"} /\ ~AnsweredYes) => files' = files
        /\ (pc \in {"call", "retry"} /\ RaisedIn(<<"s","a","v","e","_","c","h","e","c","k","l","i","s","t">>)')
              => generate_checklist /\ AnsweredYes
        /\ (pc = "input" /\ pc' = "call") => ~generate_checklist' /\ ~AnsweredYes' ]_vars

\* a checklist was written for a query answered y, and the answer printed
C26_Reached ==
    /\ Answer
    /\ AnsweredYes /\ generate_checklist
    /\ files # <<>>

\* the control a 'cci mappings for <control>' query asks for: the word after
\* 'cci mappings for ', normalized; the empty text for any other query
RequestedControl(q) ==
    IF In(<<"c","c","i"," ","m","a","p","p","i","n","g","s"," ","f","o","r"," ">>, lower(q))
    THEN normalize_control_id(upper(Before(After(lower(q), <<"c","c","i"," ","m","a","p","p","i","n","g","s"," ","f","o","r"," ">>) \o <<" ">>, <<" ">>)))
    ELSE <<>>

\* the CCI ids mapped to a control, in the order of the mapping
MappedTo(control_id) ==
    DictKeys(FilterSeq(cci_to_nist, {it \in Range(cci_to_nist) :
                                        normalize_control_id(it.val) = control_id}))

\* C27: the response to a 'cci mappings for <control>' query lists the CCI
\* ids whose control, normalized, is the normalized control asked for, all of
\* them and no other, in the order of the mapping, whatever words follow the
\* control id; when there is none it is the 'No CCI mappings found' line, and
\* nothing is raised.
C27_ReverseLookupByControl ==
    [][ (Called /\ IsControlId(RequestedControl(LastQuery)))
          => LET id == RequestedControl(LastQuery)
                 lines == Body(response')
                 listed == FilterSeq(lines, {l \in Range(lines) : l.tag = T.cci_arrow})
             IN  /\ pc' = "loop"
                 /\ lines # <<>> /\ lines[1] = Line(T.cci_mappings_for, 0, <<id>>)
                 /\ [k \in 1..Len(listed) |-> listed[k].texts[1]] = MappedTo(id)
                 /\ MappedTo(id) = <<>>
                      => lines = << lines[1], Line(T.no_cci_mappings, 0, <<id>>) >> ]_vars

\* the words of the last ' for ' or ' on ' clause of a query, in lower case
\* and without a question mark at the end; the empty text without a clause
ClauseHint(q) ==
    LET low == lower(q)
        s == IF low # <<>> /\ low[Len(low)] = "?" THEN SubSeq(low, 1, Len(low) - 1) ELSE low
        fors == {i \in 1..Len(s) : StartsAt(s, i, <<" ","f","o","r"," ">>)}
        ons == {i \in 1..Len(s) : StartsAt(s, i, <<" ","o","n"," ">>)}
        ends == {i + 5 : i \in fors} \cup {i + 4 : i \in ons}
    IN  IF ends = {} THEN <<>>
        ELSE strip(SubSeq(s, CHOOSE e \in ends : \A k \in ends : k <= e, Len(s)))

\* C28: for an assess or implement query the technology hint is the words of
\* its last 'for <words>' or 'on <words>' clause, in lower case and without
\* the question mark: 'How should IA-5 be implemented for Windows?' and 'How
\* should IA-5 be implemented on Windows?' both give 'windows', and a query
\* with neither clause gives no hint.
C28_HintFromForOrOn ==
    (Replied /\ ~selected_idx.bound /\ Intent(query) = "guidance")
    => /\ Resolved.tech_hint = ClauseHint(query)
       /\ query \in {Typed.ia5_for, Typed.ia5_on} => Resolved.tech_hint = <<"w","i","n","d","o","w","s">>

\* the controls of a query that are processed before its control id
EarlierThan(control_ids, id) ==
    {control_ids[k] : k \in {k \in 1..Len(control_ids) :
                                \E j \in (k + 1)..Len(control_ids) : control_ids[j] = id}}
        \ {id}

\* C29: in an assess query that names several controls, answered with
\* generate_checklist set, the steps exported for a control come from that
\* control alone: no step row of its checklist is the retrieved Assessment
\* snippet of a control processed earlier in the same query.
C29_StepsOfTheControlAlone ==
    [][ (Called /\ pc' # "crashed")
          => \A i \in 1..Len(files') :
                (i > Len(files) \/ files'[i] # files[i])
                => \A d \in Range(retrieved_docs') :
                      (/\ In(<<"A","s","s","e","s","s","m","e","n","t",","," ">>, d)
                       /\ DocControl(d) \in EarlierThan(Resolved.control_ids, files'[i].key[1]))
                      => \A r \in Range(StepRows(files'[i].val)) :
                            r.task # nist_task(After(d, <<":"," ">>)) ]_vars

\* ------------------------------------------- retrieve_documents on its own

\* the most documents of a corpus, the largest top_k and the most calls
MaxCorpus == 3

MaxTopK == 4

MaxRetrievals == 1

\* the corpora retrieve_documents searches: the first documents of main's
CorpusInputs == {SubSeq(all_documents, 1, n) : n \in 1..MaxCorpus}

\* the queries it is called with: with a control id some document holds, with
\* one no document holds, and without a control id
RetrieveQueries == {Typed.assess_1, Typed.assess_17, Typed.audit_9, Typed.hello}

\* index.search(query_embedding, top_k) on an index of n vectors: top_k
\* positions, the nearest first, each once, in an order the embedding decides;
\* -1 in the slots left when the index holds fewer than top_k vectors
index_search(n, top_k) ==
    { r \in [1..top_k -> (-1)..(n - 1)] :
        /\ \A i \in 1..top_k : (r[i] = -1) <=> (i > n)
        /\ \A i, j \in 1..top_k : (i # j /\ r[i] # -1) => r[i] # r[j] }

RetrieveInit ==
    /\ NoSession
    /\ given_id = <<>>
    /\ normalized = <<>>
    /\ exported = <<>>
    /\ index_files = <<>>
    /\ built = <<>>
    /\ retrieved = <<>>

\* a call retrieve_documents(query, model, index, doc_list, top_k)
RetrieveDocuments ==
    /\ Len(retrieved) < MaxRetrievals
    /\ \E doc_list \in CorpusInputs : \E top_k \in 1..MaxTopK :
       \E q \in RetrieveQueries : \E indices \in index_search(Len(doc_list), top_k) :
           retrieved' = Append(retrieved,
                               [query |-> q, doc_list |-> doc_list, top_k |-> top_k,
                                indices |-> indices,
                                result |-> retrieve_documents(q, indices, doc_list)])
    /\ UNCHANGED <<kb, session, given_id, normalized, exported, index_files, built>>

RetrieveNext == RetrieveDocuments

RetrieveSpec == RetrieveInit /\ [][RetrieveNext]_vars

\* the documents at the positions a search reported as hits, nearest first
HitDocs(call) ==
    LET hits == FilterSeq(call.indices, {i \in Range(call.indices) : i >= 0})
    IN  [k \in 1..Len(hits) |-> call.doc_list[hits[k] + 1]]

\* C30: retrieve_documents returns only documents at positions the search
\* reported as hits, nearest first. When the corpus holds fewer documents than
\* top_k, the unfiltered result has every corpus document at most once and no
\* document for an empty slot (index -1), and no result has more entries than
\* the corpus.
C30_OnlyHitsAreReturned ==
    \A c \in 1..Len(retrieved) :
        LET call == retrieved[c]
        IN  /\ Len(call.result) <= Len(call.doc_list)
            /\ \A k \in 1..Len(call.result) : call.result[k] \in Range(HitDocs(call))
            /\ \A k, j \in 1..Len(call.result) : k # j => call.result[k] # call.result[j]
            /\ control_match(call.query) = <<>> => call.result = HitDocs(call)

====
